---- MODULE Spec2Model ----
(***************************************************************************)
(* Pixel-sort filter (PIPixelSort.h, PISpanDetector.h, PIPixelSortMain.cpp) *)
(* as a state machine: the FilterRun loop of TriglavPluginCall with its     *)
(* stages Gather, Rotate, SortLines, Unrotate, BlendSelection, Scatter, and *)
(* the pure functions they call (sort keys, span detection, SortLine).      *)
(*                                                                         *)
(* Conventions.  A pixel is <<r, g, b>>.  A line or a buffer is a sequence  *)
(* of pixels; the code's index i is element i+1.  A span is the code's      *)
(* half-open [start, end) over 0-based indices.  A float is modelled by the *)
(* exact rational <<num, den>> (den > 0) of the value the expression has in *)
(* real arithmetic; float rounding is not modelled.                         *)
(***************************************************************************)
EXTENDS Integers, Sequences, FiniteSets, TLC

VARIABLES
    pc,            \* position of FilterRun in its loop
    restart,       \* the restart flag of the loop
    blockIndex,    \* the loop's block counter
    result,        \* *result of TriglavPluginCall
    hostState,     \* state the last Process call passed to the host
    props,         \* host: the property object's current values
    dest,          \* host: destination offscreen, one pixel per position
    source,        \* host: the image the destination is reset to
    select,        \* host: selection offscreen (<<>> when there is none)
    fullW, fullH,  \* selectAreaRect size
    currentParams, \* the pass's Params snapshot
    rng,           \* mt19937: outputs taken since the last seed
    mt,            \* mt19937: the output sequence of seed 42
    tieOrder,      \* std::sort: how this build orders equal keys
    fullImage, origImage, fullSelect, rotImage,
    sortW, sortH, useAngle,
    y,             \* next line of the row / column loop
    passes,        \* passes started so far
    trace,         \* stages the current pass has run, in order
    lineLog,       \* what the last SortLine call did
    gathered,      \* fullImage as Gather left it (this pass)
    firstPass      \* params, input and output of the first finished pass

vars == <<pc, restart, blockIndex, result, hostState, props, dest, source,
          select, fullW, fullH, currentParams, rng, mt, tieOrder, fullImage,
          origImage, fullSelect, rotImage, sortW, sortH, useAngle, y, passes,
          trace, lineLog, gathered, firstPass>>

---------------------------------------------------------------------------
(* Enumerations of PIPixelSort.h *)

kSortDirectionHorizontal == 0
kSortDirectionVertical == 1

kSortKeyBrightness == 0
kSortKeyHue == 1
kSortKeySaturation == 2
kSortKeyIntensity == 3
kSortKeyMinimum == 4
kSortKeyRed == 5
kSortKeyGreen == 6
kSortKeyBlue == 7

kIntervalModeThreshold == 0
kIntervalModeRandom == 1
kIntervalModeEdges == 2
kIntervalModeWaves == 3
kIntervalModeNone == 4

---------------------------------------------------------------------------
(* Arithmetic helpers *)

Min2(a, b) == IF a < b THEN a ELSE b

Max2(a, b) == IF a > b THEN a ELSE b

Abs(a) == IF a < 0 THEN -a ELSE a

\* C integer division: truncates toward zero
TruncDiv(a, b) == IF a >= 0 THEN a \div b ELSE -((-a) \div b)

\* ceil(a / b) for b > 0, a >= 0
CeilDiv(a, b) == (a + b - 1) \div b

\* comparisons of rationals <<num, den>>, den > 0
RatLess(a, b) == a[1] * b[2] < b[1] * a[2]

RatLeq(a, b) == a[1] * b[2] <= b[1] * a[2]

Min3(r, g, b) == Min2(r, Min2(g, b))

Max3(r, g, b) == Max2(r, Max2(g, b))

---------------------------------------------------------------------------
(* Sort key functions, PIPixelSort.h *)

\* 0.299f*r + 0.587f*g + 0.114f*b
GetBrightness(r, g, b) == <<299 * r + 587 * g + 114 * b, 1000>>

GetIntensity(r, g, b) == <<r + g + b, 3>>

GetMinimum(r, g, b) == <<Min3(r, g, b), 1>>

GetHue(r, g, b) ==
    LET maxC == Max3(r, g, b)
        minC == Min3(r, g, b)
        delta == maxC - minC
        \* fmodf((g - b) / delta, 6) is (g - b) / delta: its magnitude is <= 1
        hue == IF maxC = r THEN 60 * (g - b)
               ELSE IF maxC = g THEN 60 * (b - r) + 120 * delta
               ELSE 60 * (r - g) + 240 * delta
    IN  IF delta <= 0 THEN <<0, 1>>
        ELSE IF hue < 0 THEN <<hue + 360 * delta, delta>>
        ELSE <<hue, delta>>

GetSaturation(r, g, b) ==
    LET maxC == Max3(r, g, b)
        minC == Min3(r, g, b)
    IN  IF maxC <= 0 THEN <<0, 1>> ELSE <<maxC - minC, maxC>>

GetSortValue(r, g, b, key) ==
    CASE key = kSortKeyBrightness -> GetBrightness(r, g, b)
      [] key = kSortKeyHue -> GetHue(r, g, b)
      [] key = kSortKeySaturation -> GetSaturation(r, g, b)
      [] key = kSortKeyIntensity -> GetIntensity(r, g, b)
      [] key = kSortKeyMinimum -> GetMinimum(r, g, b)
      [] key = kSortKeyRed -> <<r, 1>>
      [] key = kSortKeyGreen -> <<g, 1>>
      [] key = kSortKeyBlue -> <<b, 1>>
      [] OTHER -> GetBrightness(r, g, b)

\* x / d for a rational x
RatDiv(x, d) == <<x[1], x[2] * d>>

GetBrightnessNorm(r, g, b) == RatDiv(GetBrightness(r, g, b), 255)

GetSortValueNorm(r, g, b, key) ==
    CASE key = kSortKeyBrightness -> RatDiv(GetBrightness(r, g, b), 255)
      [] key = kSortKeyHue -> RatDiv(GetHue(r, g, b), 360)
      [] key = kSortKeySaturation -> GetSaturation(r, g, b)
      [] key = kSortKeyIntensity -> RatDiv(GetIntensity(r, g, b), 255)
      [] key = kSortKeyMinimum -> RatDiv(GetMinimum(r, g, b), 255)
      [] key = kSortKeyRed -> <<r, 255>>
      [] key = kSortKeyGreen -> <<g, 255>>
      [] key = kSortKeyBlue -> <<b, 255>>
      [] OTHER -> RatDiv(GetBrightness(r, g, b), 255)

---------------------------------------------------------------------------
(* Parameters, PIPixelSort.h *)

MakeDefaultParams ==
    [direction |-> kSortDirectionHorizontal, sortKey |-> kSortKeyBrightness,
     intervalMode |-> kIntervalModeThreshold, lowerThreshold |-> 64,
     upperThreshold |-> 204, reverse |-> FALSE, jitter |-> 0, spanMin |-> 1,
     spanMax |-> 0, angle |-> 0, falloff |-> 0]

\* C's % : the result has the sign of the dividend
CMod(a, b) == a - b * TruncDiv(a, b)

\* mutant of ClampParams: every field is clamped on its own, the repairs of
\* upperThreshold < lowerThreshold and of spanMax < spanMin are left out
ClampParamsNoRepair(p) ==
    [direction |-> IF p.direction < 0 \/ p.direction > 1
                   THEN kSortDirectionHorizontal ELSE p.direction,
     sortKey |-> IF p.sortKey < 0 \/ p.sortKey > 7
                 THEN kSortKeyBrightness ELSE p.sortKey,
     intervalMode |-> IF p.intervalMode < 0 \/ p.intervalMode > 4
                      THEN kIntervalModeThreshold ELSE p.intervalMode,
     lowerThreshold |-> Max2(0, Min2(255, p.lowerThreshold)),
     upperThreshold |-> Max2(0, Min2(255, p.upperThreshold)),
     reverse |-> p.reverse,
     jitter |-> Max2(0, Min2(100, p.jitter)),
     spanMin |-> Max2(1, Min2(10000, p.spanMin)),
     spanMax |-> Max2(0, Min2(10000, p.spanMax)),
     angle |-> CMod(CMod(p.angle, 360) + 360, 360),
     falloff |-> Max2(0, Min2(100, p.falloff))]

ClampParams(p) ==
    LET lower == Max2(0, Min2(255, p.lowerThreshold))
        upper0 == Max2(0, Min2(255, p.upperThreshold))
        sMin == Max2(1, Min2(10000, p.spanMin))
        sMax0 == Max2(0, Min2(10000, p.spanMax))
    IN  [direction |-> IF p.direction < 0 \/ p.direction > 1
                       THEN kSortDirectionHorizontal ELSE p.direction,
         sortKey |-> IF p.sortKey < 0 \/ p.sortKey > 7
                     THEN kSortKeyBrightness ELSE p.sortKey,
         intervalMode |-> IF p.intervalMode < 0 \/ p.intervalMode > 4
                          THEN kIntervalModeThreshold ELSE p.intervalMode,
         lowerThreshold |-> lower,
         upperThreshold |-> IF upper0 < lower THEN lower ELSE upper0,
         reverse |-> p.reverse,
         jitter |-> Max2(0, Min2(100, p.jitter)),
         spanMin |-> sMin,
         spanMax |-> IF sMax0 > 0 /\ sMax0 < sMin THEN sMin ELSE sMax0,
         angle |-> CMod(CMod(p.angle, 360) + 360, 360),
         falloff |-> Max2(0, Min2(100, p.falloff))]

---------------------------------------------------------------------------
(* std::mt19937 and std::uniform_int_distribution                          *)
(* The generator's state is the number of outputs taken since seed(42);    *)
(* mt is the output sequence of that seed, the same in every pass, each    *)
(* output scaled to 0..RawMax.  A distribution over [lo, hi] takes one     *)
(* output and maps 0 to lo and RawMax to hi.                               *)

StreamLen == 2

RawMax == 1

RngSeed == 0

UniformInt(lo, hi, k) == lo + (mt[k % StreamLen] * (hi - lo)) \div RawMax

\* mutant of SeedRng: the pass does not re-seed
SeedRngKeep(k) == k

\* rng.seed(42): the state after it, whatever the state k before
SeedRng(k) == RngSeed

---------------------------------------------------------------------------
(* sin of PISpanDetector.h: floor(10^6 * sin(p / 10)) for p = 0, 1, ...   *)

SinE6 ==
    <<
       0, 99833, 198669, 295520, 389418, 479425, 564642, 644217,
       717356, 783326, 841470, 891207, 932039, 963558, 985449, 997494,
       999573, 991664, 973847, 946300, 909297, 863209, 808496, 745705,
       675463, 598472, 515501, 427379, 334988, 239249, 141120, 41580,
       -58375, -157746, -255542, -350784, -442521, -529837, -611858, -687767,
       -756803, -818278, -871576, -916166, -951603, -977531, -993692, -999924,
       -996165, -982453, -958925, -925815, -883455, -832268, -772765, -705541,
       -631267, -550686, -464603, -373877, -279416, -182163, -83090, 16813,
       116549, 215119, 311541, 404849, 494113, 578439, 656986, 728969,
       793667, 850436, 898708, 937999, 967919, 988168, 998543, 998941,
       989358, 969889, 940730, 902171, 854598, 798487, 734397, 662969,
       584917, 501020, 412118, 319098, 222889, 124454, 24775, -75152,
       -174327, -271761, -366480, -457536, -544022, -625071, -699875, -767686,
       -827827, -879696, -922776, -956636, -980937, -995437, -999991, -994553,
       -979178, -954020, -919329, -875453, -822829, -761984, -693526, -618138,
       -536573, -449648, -358230, -263232, -165605, -66322, 33623, 133232,
       231509, 327474, 420167, 508661, 592073, 669569, 740375, 803784,
       859161, 905954, 943695, 972007, 990607, 999309, 998026, 986771,
       965657, 934895, 894791, 845746, 788252, 722881, 650287, 571196,
       486398, 396740, 303118, 206467, 107753, 7963, -91907, -190859
    >>

---------------------------------------------------------------------------
(* Span detection, PISpanDetector.h *)

MkSpan(s, e) == [start |-> s, end |-> e]

\* RowAccessor::getRGB(i) on a line held as a sequence
PixelAt(line, i) == line[i + 1]

SortValueNormAt(line, i, key) ==
    GetSortValueNorm(PixelAt(line, i)[1], PixelAt(line, i)[2],
                     PixelAt(line, i)[3], key)

InRange(val, lowerNorm, upperNorm) ==
    RatLeq(lowerNorm, val) /\ RatLeq(val, upperNorm)

RECURSIVE ThresholdLoop(_, _, _, _, _, _, _)
\* the for loop of DetectSpansThreshold from index i on (spanStart = -1: none open)
ThresholdLoop(line, lowerNorm, upperNorm, sortKey, i, spanStart, out) ==
    LET n == Len(line)
        inRange == IF i < n
                   THEN InRange(SortValueNormAt(line, i, sortKey),
                                lowerNorm, upperNorm)
                   ELSE FALSE
    IN  IF i > n THEN out
        ELSE IF inRange /\ spanStart < 0
        THEN ThresholdLoop(line, lowerNorm, upperNorm, sortKey, i + 1, i, out)
        ELSE IF ~inRange /\ spanStart >= 0
        THEN ThresholdLoop(line, lowerNorm, upperNorm, sortKey, i + 1, -1,
                           Append(out, MkSpan(spanStart, i)))
        ELSE ThresholdLoop(line, lowerNorm, upperNorm, sortKey, i + 1,
                           spanStart, out)

\* mutant of DetectSpansThreshold: the loop stops at i < n, so a run that
\* reaches the end of the line is never closed
DetectSpansThresholdNoTail(line, lowerNorm, upperNorm, sortKey) ==
    LET out == ThresholdLoop(line, lowerNorm, upperNorm, sortKey, 0, -1, <<>>)
    IN  IF Len(out) > 0 /\ out[Len(out)].end = Len(line)
        THEN SubSeq(out, 1, Len(out) - 1)
        ELSE out

DetectSpansThreshold(line, lowerNorm, upperNorm, sortKey) ==
    IF Len(line) <= 0 THEN <<>>
    ELSE ThresholdLoop(line, lowerNorm, upperNorm, sortKey, 0, -1, <<>>)

RECURSIVE RandomLoop(_, _, _, _, _)
\* the while loop of DetectSpansRandom; k is the generator state
RandomLoop(n, maxLen, i, k, out) ==
    IF i >= n THEN [spans |-> out, rng |-> k]
    ELSE LET length == UniformInt(10, maxLen, k)
             end == Min2(i + length, n)
             gap == UniformInt(1, 20, k + 1)
         IN  RandomLoop(n, maxLen, end + gap, k + 2,
                        Append(out, MkSpan(i, end)))

RECURSIVE RandomLoopNoClamp(_, _, _, _, _)
RandomLoopNoClamp(n, maxLen, i, k, out) ==
    IF i >= n THEN [spans |-> out, rng |-> k]
    ELSE LET length == UniformInt(10, maxLen, k)
             gap == UniformInt(1, 20, k + 1)
         IN  RandomLoopNoClamp(n, maxLen, i + length + gap, k + 2,
                               Append(out, MkSpan(i, i + length)))

\* mutant of DetectSpansRandom: the end of a span is not cut off at n
DetectSpansRandomNoClamp(n, k) ==
    IF n <= 0 THEN [spans |-> <<>>, rng |-> k]
    ELSE RandomLoopNoClamp(n, Max2(11, n \div 4), 0, k, <<>>)

RECURSIVE RandomLoopNoGap(_, _, _, _, _)
RandomLoopNoGap(n, maxLen, i, k, out) ==
    IF i >= n THEN [spans |-> out, rng |-> k]
    ELSE LET length == UniformInt(10, maxLen, k)
             end == Min2(i + length, n)
         IN  RandomLoopNoGap(n, maxLen, end, k + 2,
                             Append(out, MkSpan(i, end)))

\* mutant of DetectSpansRandom: the gap is drawn but the cursor does not
\* move past it
DetectSpansRandomNoGap(n, k) ==
    IF n <= 0 THEN [spans |-> <<>>, rng |-> k]
    ELSE RandomLoopNoGap(n, Max2(11, n \div 4), 0, k, <<>>)

DetectSpansRandom(n, k) ==
    IF n <= 0 THEN [spans |-> <<>>, rng |-> k]
    ELSE RandomLoop(n, Max2(11, n \div 4), 0, k, <<>>)

\* numerator of GetBrightnessNorm over the common denominator 255000
BrightnessWork(line, i) ==
    GetBrightness(PixelAt(line, i)[1], PixelAt(line, i)[2],
                  PixelAt(line, i)[3])[1]

\* edges[i] = fabsf(brightnessWork[i + 1] - brightnessWork[i])
EdgeAt(line, i) == Abs(BrightnessWork(line, i + 1) - BrightnessWork(line, i))

RECURSIVE EdgeSum(_, _)
EdgeSum(line, nEdges) ==
    IF nEdges = 0 THEN 0
    ELSE EdgeSum(line, nEdges - 1) + EdgeAt(line, nEdges - 1)

RECURSIVE EdgeSumSq(_, _)
EdgeSumSq(line, nEdges) ==
    IF nEdges = 0 THEN 0
    ELSE EdgeSumSq(line, nEdges - 1)
         + EdgeAt(line, nEdges - 1) * EdgeAt(line, nEdges - 1)

\* edges[i] > mean + stddev, with mean = S / N and variance = Q / N - mean^2:
\* N*e - S > sqrt(N*Q - S*S)
ExceedsEdgeThreshold(e, nEdges, edgeSum, edgeSumSq) ==
    LET d == nEdges * e - edgeSum
        v == Max2(0, nEdges * edgeSumSq - edgeSum * edgeSum)
    IN  d > 0 /\ d * d > v

RECURSIVE EdgeLoop(_, _, _, _, _, _)
\* the split loop of DetectSpansEdges from edge i on
EdgeLoop(line, i, prevPos, edgeSum, edgeSumSq, out) ==
    LET n == Len(line)
        nEdges == n - 1
        splitPos == i + 1
    IN  IF i >= nEdges
        THEN IF n > prevPos THEN Append(out, MkSpan(prevPos, n)) ELSE out
        ELSE IF ExceedsEdgeThreshold(EdgeAt(line, i), nEdges, edgeSum, edgeSumSq)
        THEN EdgeLoop(line, i + 1, splitPos, edgeSum, edgeSumSq,
                      IF splitPos > prevPos
                      THEN Append(out, MkSpan(prevPos, splitPos)) ELSE out)
        ELSE EdgeLoop(line, i + 1, prevPos, edgeSum, edgeSumSq, out)

\* mutant of DetectSpansEdges: the "Last span" after the split loop is left out
DetectSpansEdgesNoLast(line) ==
    LET n == Len(line)
        all == EdgeLoop(line, 0, 0, EdgeSum(line, n - 1),
                        EdgeSumSq(line, n - 1), <<>>)
    IN  IF n <= 0 THEN <<>>
        ELSE IF n = 1 THEN <<MkSpan(0, 1)>>
        ELSE SubSeq(all, 1, Len(all) - 1)

DetectSpansEdges(line) ==
    LET n == Len(line)
    IN  IF n <= 0 THEN <<>>
        ELSE IF n = 1 THEN <<MkSpan(0, 1)>>
        ELSE EdgeLoop(line, 0, 0, EdgeSum(line, n - 1), EdgeSumSq(line, n - 1),
                      <<>>)

\* (int)(waveLen * (0.5 + 0.5 * sin(phase))), phase = p / 10
WaveLength(waveLen, p) == (waveLen * (1000000 + SinE6[p + 1])) \div 2000000

RECURSIVE WavesLoop(_, _, _, _, _)
\* the while loop of DetectSpansWaves; phase is p / 10
WavesLoop(n, waveLen, i, p, out) ==
    IF i >= n THEN out
    ELSE LET length == Max2(2, WaveLength(waveLen, p))
             end == Min2(i + length, n)
         IN  WavesLoop(n, waveLen, end, p + 5, Append(out, MkSpan(i, end)))

DetectSpansWaves(n, rowIndex) ==
    IF n <= 0 THEN <<>>
    ELSE WavesLoop(n, Max2(10, n \div 8), 0, rowIndex, <<>>)

DetectSpansNone(n) == IF n <= 0 THEN <<>> ELSE <<MkSpan(0, n)>>

SpanLength(sp) == sp.end - sp.start

\* mutant of FilterSpanMin: > instead of >=
FilterSpanMinStrict(spans, spanMin) ==
    IF spanMin > 1
    THEN SelectSeq(spans, LAMBDA sp : SpanLength(sp) > spanMin)
    ELSE spans

\* "Filter by span_min"
FilterSpanMin(spans, spanMin) ==
    IF spanMin > 1
    THEN SelectSeq(spans, LAMBDA sp : SpanLength(sp) >= spanMin)
    ELSE spans

RECURSIVE SplitSpan(_, _, _)
\* the inner while loop of "Cap by span_max" on [s, e)
SplitSpan(s, e, spanMax) ==
    IF s >= e THEN <<>>
    ELSE LET end == Min2(s + spanMax, e)
         IN  <<MkSpan(s, end)>> \o SplitSpan(end, e, spanMax)

RECURSIVE CapLoop(_, _, _)
CapLoop(spans, i, spanMax) ==
    IF i > Len(spans) THEN <<>>
    ELSE SplitSpan(spans[i].start, spans[i].end, spanMax)
         \o CapLoop(spans, i + 1, spanMax)

\* "Cap by span_max (split long spans)"
CapSpanMax(spans, spanMax) ==
    IF spanMax > 0 THEN CapLoop(spans, 1, spanMax) ELSE spans

\* the strategy dispatch of DetectSpans: [spans, rng]
DetectDispatch(line, params, rowIndex, k) ==
    LET n == Len(line)
        lowerNorm == <<params.lowerThreshold, 255>>
        upperNorm == <<params.upperThreshold, 255>>
    IN  CASE params.intervalMode = kIntervalModeThreshold ->
               [spans |-> DetectSpansThreshold(line, lowerNorm, upperNorm,
                                               params.sortKey),
                rng |-> k]
          [] params.intervalMode = kIntervalModeRandom ->
               DetectSpansRandom(n, k)
          [] params.intervalMode = kIntervalModeEdges ->
               [spans |-> DetectSpansEdges(line), rng |-> k]
          [] params.intervalMode = kIntervalModeWaves ->
               [spans |-> DetectSpansWaves(n, rowIndex), rng |-> k]
          [] OTHER -> [spans |-> DetectSpansNone(n), rng |-> k]

\* DetectSpans: [spans (after the filters), rng, detected (before them)]
DetectSpans(line, params, rowIndex, k) ==
    LET d == DetectDispatch(line, params, rowIndex, k)
    IN  [spans |-> CapSpanMax(FilterSpanMin(d.spans, params.spanMin),
                              params.spanMax),
         rng |-> d.rng,
         detected |-> d.spans]

---------------------------------------------------------------------------
(* SortLine, PIPixelSortMain.cpp *)

\* selectArea == NULL
NoSelection == <<>>

\* selectArea[pixelIdx * selectPixelStride] on a mask line held as a sequence
SelAt(sel, pixelIdx) == sel[pixelIdx + 1]

MkPixelData(px, key) ==
    [px |-> px, sortValue |-> GetSortValue(px[1], px[2], px[3], key)]

\* mutant of IncludedIndices: the selection value is not looked at
IncludedIndicesUnmasked(line, sel, spanStart, spanLen) ==
    LET offs == [j \in 1..spanLen |-> j - 1]
    IN  SelectSeq(offs, LAMBDA i : spanStart + i < Len(line))

\* the collect loop: the span-relative offsets i whose pixel takes part
IncludedIndices(line, sel, spanStart, spanLen) ==
    LET offs == [j \in 1..spanLen |-> j - 1]
    IN  SelectSeq(offs, LAMBDA i :
            /\ spanStart + i < Len(line)
            /\ (sel = NoSelection \/ SelAt(sel, spanStart + i) # 0))

\* mutant of CollectPixels: every entry is read at the first included offset
CollectPixelsFirst(line, spanStart, included, key) ==
    [j \in 1..Len(included) |->
        MkPixelData(PixelAt(line, spanStart + included[1]), key)]

CollectPixels(line, spanStart, included, key) ==
    [j \in 1..Len(included) |->
        MkPixelData(PixelAt(line, spanStart + included[j]), key)]

\* One element put into a sequence that is ordered by sortValue.  std::sort
\* orders by sortValue and leaves the order of equal keys unspecified:
\* "stable" keeps it (the insertion sort of short ranges), "reversed" is the
\* other extreme an unstable partition can give.
InsertByKey(sorted, pd, ties) ==
    LET before == SelectSeq(sorted, LAMBDA q :
                      IF ties = "stable"
                      THEN ~RatLess(pd.sortValue, q.sortValue)
                      ELSE RatLess(q.sortValue, pd.sortValue))
        after == SubSeq(sorted, Len(before) + 1, Len(sorted))
    IN  before \o <<pd>> \o after

RECURSIVE SortPrefix(_, _, _)
SortPrefix(pixels, m, ties) ==
    IF m = 0 THEN <<>>
    ELSE InsertByKey(SortPrefix(pixels, m - 1, ties), pixels[m], ties)

\* mutant of StdSort: the span is left in its order
StdSortNone(pixels) == pixels

\* std::sort(pixelsWork, a.sortValue < b.sortValue)
StdSort(pixels) == SortPrefix(pixels, Len(pixels), tieOrder)

\* std::reverse
Reverse(seq) == [j \in 1..Len(seq) |-> seq[Len(seq) + 1 - j]]

\* mutant of Swap: entry j is copied to i, entry i is lost
SwapCopyOnly(seq, i, j) == [seq EXCEPT ![i + 1] = seq[j + 1]]

\* std::swap(pixelsWork[i], pixelsWork[j]), 0-based
Swap(seq, i, j) ==
    [seq EXCEPT ![i + 1] = seq[j + 1], ![j + 1] = seq[i + 1]]

RECURSIVE JitterLoop(_, _, _, _)
\* the jitter loop from i on; k is the generator state: [work, rng]
JitterLoop(work, jitter, i, k) ==
    LET count == Len(work)
        offset == UniformInt(-jitter, jitter, k)
        j == Max2(0, Min2(count - 1, i + offset))
    IN  IF i >= count THEN [work |-> work, rng |-> k]
        ELSE JitterLoop(Swap(work, i, j), jitter, i + 1, k + 1)

\* mutant of ApplyJitter: the loop is entered whatever the jitter
ApplyJitterAnyAmount(work, jitter, k) ==
    IF Len(work) > 1 THEN JitterLoop(work, jitter, 0, k)
    ELSE [work |-> work, rng |-> k]

\* "Apply jitter": if (params.jitter > 0 && count > 1)
ApplyJitter(work, jitter, k) ==
    IF jitter > 0 /\ Len(work) > 1 THEN JitterLoop(work, jitter, 0, k)
    ELSE [work |-> work, rng |-> k]

\* static_cast<BYTE>
ToByte(v) == v % 256

\* mutant of BlendChannel: the division rounds down instead of toward zero
BlendChannelFloor(sorted, orig, alpha) ==
    ToByte(((sorted - orig) * alpha) \div 255 + orig)

\* mutant of BlendChannel: the difference is taken the other way round
BlendChannelAway(sorted, orig, alpha) ==
    ToByte(TruncDiv((orig - sorted) * alpha, 255) + orig)

\* static_cast<BYTE>(((sorted - orig) * alpha / 255) + orig)
BlendChannel(sorted, orig, alpha) ==
    ToByte(TruncDiv((sorted - orig) * alpha, 255) + orig)

BlendPixel(sorted, orig, alpha) ==
    <<BlendChannel(sorted[1], orig[1], alpha),
      BlendChannel(sorted[2], orig[2], alpha),
      BlendChannel(sorted[3], orig[3], alpha)>>

SetRGB(line, pixelIdx, px) == [line EXCEPT ![pixelIdx + 1] = px]

RECURSIVE WriteBack(_, _, _, _, _, _)
\* "Write sorted pixels back", from work index i on
WriteBack(line, sel, spanStart, included, work, i) ==
    LET pixelIdx == spanStart + included[i + 1]
        new == work[i + 1].px
    IN  IF i >= Len(work) THEN line
        ELSE IF sel = NoSelection
        THEN WriteBack(SetRGB(line, pixelIdx, new), sel, spanStart, included,
                       work, i + 1)
        ELSE IF SelAt(sel, pixelIdx) = 255
        THEN WriteBack(SetRGB(line, pixelIdx, new), sel, spanStart, included,
                       work, i + 1)
        ELSE IF SelAt(sel, pixelIdx) > 0
        THEN WriteBack(SetRGB(line, pixelIdx,
                              BlendPixel(new, PixelAt(line, pixelIdx),
                                         SelAt(sel, pixelIdx))),
                       sel, spanStart, included, work, i + 1)
        ELSE WriteBack(line, sel, spanStart, included, work, i + 1)

\* mutant of FalloffDraw: a distribution over [0, 100]
FalloffDrawTo100(k) == UniformInt(0, 100, k)

\* mutant of FalloffDraw: a distribution over [1, 100]
FalloffDrawFrom1(k) == UniformInt(1, 100, k)

\* falloffDist(0, 99)
FalloffDraw(k) == UniformInt(0, 99, k)

\* what the span loop records of one span
SpanRecord(sp, outcome, draw, included, work, rngAfter) ==
    [start |-> sp.start, end |-> sp.end, outcome |-> outcome, draw |-> draw,
     included |-> included, work |-> work, rngAfter |-> rngAfter]

RECURSIVE SpanLoop(_, _, _, _, _, _, _)
\* the span loop of SortLine from span si (1-based) on: [line, rng, log]
SpanLoop(line, params, sel, spans, si, k, log) ==
    IF si > Len(spans) THEN [line |-> line, rng |-> k, log |-> log]
    ELSE
    LET sp == spans[si]
        spanLen == sp.end - sp.start
        drawn == params.falloff > 0
        draw == IF drawn THEN FalloffDraw(k) ELSE -1
        k1 == IF drawn THEN k + 1 ELSE k
        included == IncludedIndices(line, sel, sp.start, spanLen)
        count == Len(included)
        sorted == StdSort(CollectPixels(line, sp.start, included,
                                        params.sortKey))
        ordered == IF params.reverse THEN Reverse(sorted) ELSE sorted
        jit == ApplyJitter(ordered, params.jitter, k1)
        work == [j \in 1..count |-> jit.work[j].px]
    IN  IF spanLen < 2
        THEN SpanLoop(line, params, sel, spans, si + 1, k,
                      Append(log, SpanRecord(sp, "short", -1, <<>>, <<>>, k)))
        ELSE IF drawn /\ draw < params.falloff
        THEN SpanLoop(line, params, sel, spans, si + 1, k1,
                      Append(log, SpanRecord(sp, "falloff", draw, <<>>, <<>>,
                                             k1)))
        ELSE IF count < 2
        THEN SpanLoop(line, params, sel, spans, si + 1, k1,
                      Append(log, SpanRecord(sp, "few", draw, included, <<>>,
                                             k1)))
        ELSE SpanLoop(WriteBack(line, sel, sp.start, included, jit.work, 0),
                      params, sel, spans, si + 1, jit.rng,
                      Append(log, SpanRecord(sp, "sorted", draw, included,
                                             work, jit.rng)))

\* SortLine: the line and generator state it leaves, with a record of the
\* spans it detected and of what it did with each
SortLine(line, params, sel, rowIndex, k) ==
    LET d == DetectSpans(line, params, rowIndex, k)
        r == SpanLoop(line, params, sel, d.spans, 1, d.rng, <<>>)
    IN  IF Len(line) <= 0
        THEN [line |-> line, rng |-> k, log |-> <<>>, spans |-> <<>>,
              detected |-> <<>>, before |-> line, sel |-> sel,
              rowIndex |-> rowIndex, rngBefore |-> k]
        ELSE [line |-> r.line, rng |-> r.rng, log |-> r.log,
              spans |-> d.spans, detected |-> d.detected, before |-> line,
              sel |-> sel, rowIndex |-> rowIndex, rngBefore |-> k]

---------------------------------------------------------------------------
(* Buffers of the full-image pass, PIPixelSortMain.cpp *)

Black == <<0, 0, 0>>

\* std::vector<BYTE>(w * h * 3, 0) as pixels
ZeroImage(w, h) == [j \in 1..(w * h) |-> Black]

\* mutant of RowOf: the rows are addressed from the bottom of the buffer
RowOfFromBottom(buf, w, yy) ==
    [j \in 1..w |-> buf[(Len(buf) \div w - 1 - yy) * w + j]]

\* RowAccessor over row yy (vertical = false) of a buffer of width w
RowOf(buf, w, yy) == [j \in 1..w |-> buf[yy * w + j]]

\* RowAccessor over column xx (vertical = true): stride imageRowBytes
ColOf(buf, w, h, xx) == [j \in 1..h |-> buf[(j - 1) * w + xx + 1]]

PutRow(buf, w, yy, line) ==
    [j \in 1..Len(buf) |->
        IF (j - 1) \div w = yy THEN line[((j - 1) % w) + 1] ELSE buf[j]]

PutCol(buf, w, xx, line) ==
    [j \in 1..Len(buf) |->
        IF (j - 1) % w = xx THEN line[((j - 1) \div w) + 1] ELSE buf[j]]

\* host: getBlockRectProc gives one block per row of selectAreaRect
BlockRects(w, h) ==
    [bi \in 1..h |-> [left |-> 0, top |-> bi - 1, right |-> w, bottom |-> bi]]

InBlock(br, fx, fy) ==
    fx >= br.left /\ fx < br.right /\ fy >= br.top /\ fy < br.bottom

Covered(blocks, fx, fy) == \E bi \in 1..Len(blocks) : InBlock(blocks[bi], fx, fy)

\* the gather loop: every block pixel copied over a zero-filled buffer
GatherImage(host, w, h, blocks) ==
    [j \in 1..(w * h) |->
        IF Covered(blocks, (j - 1) % w, (j - 1) \div w) THEN host[j]
        ELSE Black]

\* fullSelect: resized to w * h (zero-filled) at the first block, then filled
GatherSelect(hostSel, w, h, blocks) ==
    IF hostSel = NoSelection \/ Len(blocks) = 0 THEN NoSelection
    ELSE [j \in 1..(w * h) |->
            IF Covered(blocks, (j - 1) % w, (j - 1) \div w) THEN hostSel[j]
            ELSE 0]

\* the write-back loop: every block pixel of the destination overwritten
ScatterImage(host, full, w, h, blocks) ==
    [j \in 1..(w * h) |->
        IF Covered(blocks, (j - 1) % w, (j - 1) \div w) THEN full[j]
        ELSE host[j]]

---------------------------------------------------------------------------
(* Rotation.  cos and sin of the angle are taken to six decimals; for the  *)
(* angles listed the truncations below give the values the double          *)
(* arithmetic of the code gives, for every buffer of up to 4 x 4 pixels.   *)

CosSinE6(angle) ==
    CASE angle = 0 -> <<1000000, 0>>
      [] angle = 37 -> <<798636, 601815>>
      [] angle = 200 -> <<-939693, -342020>>

\* mutant of UseAngle: the angle is not tested
UseAngleAnyAngle(params) == params.direction = kSortDirectionHorizontal

\* mutant of UseAngle: the direction is not tested
UseAngleAnyDirection(params) == params.angle # 0

UseAngle(params) ==
    params.angle # 0 /\ params.direction = kSortDirectionHorizontal

\* sortW, sortH: (int)ceil(fabs(w * cosA) + fabs(h * sinA)), at least 1
RotatedSize(w, h, angle) ==
    LET c == Abs(CosSinE6(angle)[1])
        sn == Abs(CosSinE6(angle)[2])
    IN  <<Max2(1, CeilDiv(w * c + h * sn, 1000000)),
          Max2(1, CeilDiv(w * sn + h * c, 1000000))>>

\* (int)(a / 10^6 / 2 + centre2 / 2 + 0.5), a in 10^-6 halves
RoundCoord(a, centre2) == TruncDiv(a + centre2 * 1000000 + 1000000, 2000000)

\* source coordinates <<sx, sy>> of rotated pixel (rx, ry)
RotateSource(rx, ry, w, h, sw, sh, angle) ==
    LET c == CosSinE6(angle)[1]
        sn == CosSinE6(angle)[2]
        dx2 == 2 * rx - (sw - 1)
        dy2 == 2 * ry - (sh - 1)
    IN  <<RoundCoord(dx2 * c - dy2 * sn, w - 1),
          RoundCoord(dx2 * sn + dy2 * c, h - 1)>>

RotateImage(full, w, h, angle) ==
    LET sw == RotatedSize(w, h, angle)[1]
        sh == RotatedSize(w, h, angle)[2]
    IN  [j \in 1..(sw * sh) |->
            LET src == RotateSource((j - 1) % sw, (j - 1) \div sw, w, h, sw, sh,
                                    angle)
            IN  IF src[1] >= 0 /\ src[1] < w /\ src[2] >= 0 /\ src[2] < h
                THEN full[src[2] * w + src[1] + 1]
                ELSE Black]

\* rotated coordinates <<rx, ry>> of original pixel (fx, fy)
UnrotateSource(fx, fy, w, h, sw, sh, angle) ==
    LET c == CosSinE6(angle)[1]
        sn == CosSinE6(angle)[2]
        dx2 == 2 * fx - (w - 1)
        dy2 == 2 * fy - (h - 1)
    IN  <<RoundCoord(dx2 * c + dy2 * sn, sw - 1),
          RoundCoord(dy2 * c - dx2 * sn, sh - 1)>>

\* std::fill(fullImage, 0), then every pixel with a source in the canvas
UnrotateImage(rot, w, h, sw, sh, angle) ==
    [j \in 1..(w * h) |->
        LET src == UnrotateSource((j - 1) % w, (j - 1) \div w, w, h, sw, sh,
                                  angle)
        IN  IF src[1] >= 0 /\ src[1] < sw /\ src[2] >= 0 /\ src[2] < sh
            THEN rot[src[2] * sw + src[1] + 1]
            ELSE Black]

\* mutant of BlendSelectionImage: mask 0 does not restore the original
BlendSelectionImageNoRestore(full, orig, sel) ==
    [j \in 1..Len(full) |->
        IF sel[j] > 0 /\ sel[j] < 255
        THEN BlendPixel(full[j], orig[j], sel[j])
        ELSE full[j]]

\* mutant of BlendSelectionImage: a mask value between 0 and 255 keeps the
\* sorted pixel
BlendSelectionImageNoBlend(full, orig, sel) ==
    [j \in 1..Len(full) |-> IF sel[j] = 0 THEN orig[j] ELSE full[j]]

\* "Apply selection blending (for angle mode, blend after unrotate)"
BlendSelectionImage(full, orig, sel) ==
    [j \in 1..Len(full) |->
        IF sel[j] = 0 THEN orig[j]
        ELSE IF sel[j] < 255 THEN BlendPixel(full[j], orig[j], sel[j])
        ELSE full[j]]

---------------------------------------------------------------------------
(* FilterRun of TriglavPluginCall: the loop, one action per stage *)

MaxPasses == 2

NoLine ==
    [line |-> <<>>, rng |-> 0, log |-> <<>>, spans |-> <<>>, detected |-> <<>>,
     before |-> <<>>, sel |-> NoSelection, rowIndex |-> -1, rngBefore |-> 0]

NoPass ==
    [done |-> FALSE, params |-> MakeDefaultParams, input |-> <<>>,
     sel |-> NoSelection, output |-> <<>>]

\* mutant of ReadAllProperties: nothing is read, the defaults stay
ReadAllPropertiesDefaults(p) == MakeDefaultParams

\* ReadAllProperties: every property read from the host, then ClampParams
ReadAllProperties(p) == ClampParams(p)

\* getBlockRectCountProc
BlockRectCount == Len(BlockRects(fullW, fullH))

\* hasSelection && !fullSelect.empty()
HasSelect(hostSel, fullSel) == hostSel # NoSelection /\ fullSel # NoSelection

\* "Save original for selection blending"
SaveOriginal(hostSel, fullSel, full) ==
    IF HasSelect(hostSel, fullSel) THEN full ELSE <<>>

\* mutant of BlockIndexAfterPass: the block index is left as it was
BlockIndexKept(bi, count) == bi

\* "blockIndex = blockRectCount;" at the end of the restart block
BlockIndexAfterPass(bi, count) == count

\* the values FilterInitialize gives the properties
DefaultProps == MakeDefaultParams

\* Process(Start) at the loop head: Exit leaves the loop, any other answer
\* starts a pass (block index reset, properties read, generator re-seeded)
ProcessStart ==
    /\ pc = "LoopHead"
    /\ restart
    /\ \E answer \in {"Continue", "Restart", "Exit"} :
        /\ restart' = FALSE
        /\ hostState' = "Start"
        /\ IF answer = "Exit"
           THEN /\ pc' = "Returned"
                /\ result' = "Success"
                /\ UNCHANGED <<blockIndex, currentParams, rng, passes, trace>>
           ELSE /\ currentParams' = ReadAllProperties(props)
                /\ rng' = SeedRng(rng)
                /\ passes' = passes + 1
                /\ trace' = <<>>
                /\ result' = result
                /\ IF fullW > 0 /\ fullH > 0
                   THEN pc' = "Gather" /\ blockIndex' = 0
                   ELSE pc' = "LoopTail"
                        /\ blockIndex' = BlockIndexAfterPass(0, BlockRectCount)
    /\ UNCHANGED <<props, dest, source, select, fullW, fullH, mt, tieOrder,
                   fullImage, origImage, fullSelect, rotImage, sortW, sortH,
                   useAngle, y, lineLog, gathered, firstPass>>

\* "Gather full image from destination blocks" and
\* "Determine sort buffer and dimensions"
Gather ==
    /\ pc = "Gather"
    /\ LET full == GatherImage(dest, fullW, fullH, BlockRects(fullW, fullH))
           fsel == GatherSelect(select, fullW, fullH, BlockRects(fullW, fullH))
       IN  /\ fullImage' = full
           /\ gathered' = full
           /\ fullSelect' = fsel
           /\ rotImage' = <<>>
           /\ useAngle' = UseAngle(currentParams)
           /\ sortW' = fullW
           /\ sortH' = fullH
           /\ IF UseAngle(currentParams)
              THEN pc' = "Rotate" /\ origImage' = <<>>
              ELSE pc' = "SortLines"
                   /\ origImage' = SaveOriginal(select, fsel, full)
    /\ y' = 0
    /\ trace' = Append(trace, "Gather")
    /\ UNCHANGED <<restart, blockIndex, result, hostState, props, dest, source,
                   select, fullW, fullH, currentParams, rng, mt, tieOrder,
                   passes, lineLog, firstPass>>

\* "if (useAngle)": the rotated working buffer
Rotate ==
    /\ pc = "Rotate"
    /\ sortW' = RotatedSize(fullW, fullH, currentParams.angle)[1]
    /\ sortH' = RotatedSize(fullW, fullH, currentParams.angle)[2]
    /\ rotImage' = RotateImage(fullImage, fullW, fullH, currentParams.angle)
    /\ origImage' = SaveOriginal(select, fullSelect, fullImage)
    /\ pc' = "SortLines"
    /\ trace' = Append(trace, "Rotate")
    /\ UNCHANGED <<restart, blockIndex, result, hostState, props, dest, source,
                   select, fullW, fullH, currentParams, rng, mt, tieOrder,
                   fullImage, fullSelect, useAngle, y, passes, lineLog,
                   gathered, firstPass>>

\* sortBuf
SortBuf == IF useAngle THEN rotImage ELSE fullImage

\* selRow / selCol handed to SortLine for line yy
SelectLine(yy) ==
    IF currentParams.direction = kSortDirectionHorizontal
    THEN IF ~useAngle /\ fullSelect # NoSelection
         THEN [j \in 1..sortW |-> fullSelect[yy * fullW + j]]
         ELSE NoSelection
    ELSE IF fullSelect # NoSelection
         THEN [j \in 1..sortH |-> fullSelect[(j - 1) * fullW + yy + 1]]
         ELSE NoSelection

LineCount ==
    IF currentParams.direction = kSortDirectionHorizontal THEN sortH ELSE sortW

\* one iteration of the row loop (Horizontal) or the column loop (Vertical)
SortLines ==
    /\ pc = "SortLines"
    /\ y < LineCount
    /\ LET horizontal == currentParams.direction = kSortDirectionHorizontal
           line == IF horizontal THEN RowOf(SortBuf, sortW, y)
                   ELSE ColOf(SortBuf, sortW, sortH, y)
           r == SortLine(line, currentParams, SelectLine(y), y, rng)
           buf == IF horizontal THEN PutRow(SortBuf, sortW, y, r.line)
                  ELSE PutCol(SortBuf, sortW, y, r.line)
       IN  /\ IF useAngle
              THEN rotImage' = buf /\ fullImage' = fullImage
              ELSE fullImage' = buf /\ rotImage' = rotImage
           /\ rng' = r.rng
           /\ lineLog' = r
    /\ y' = y + 1
    /\ pc' = IF y + 1 < LineCount THEN "SortLines"
             ELSE IF useAngle THEN "Unrotate" ELSE "Scatter"
    /\ trace' = Append(trace, "SortLines")
    /\ UNCHANGED <<restart, blockIndex, result, hostState, props, dest, source,
                   select, fullW, fullH, currentParams, mt, tieOrder, origImage,
                   fullSelect, sortW, sortH, useAngle, passes, gathered,
                   firstPass>>

\* "Unrotate if needed"
Unrotate ==
    /\ pc = "Unrotate"
    /\ fullImage' = UnrotateImage(rotImage, fullW, fullH, sortW, sortH,
                                  currentParams.angle)
    /\ pc' = IF HasSelect(select, fullSelect) THEN "BlendSelection"
             ELSE "Scatter"
    /\ trace' = Append(trace, "Unrotate")
    /\ UNCHANGED <<restart, blockIndex, result, hostState, props, dest, source,
                   select, fullW, fullH, currentParams, rng, mt, tieOrder,
                   origImage, fullSelect, rotImage, sortW, sortH, useAngle, y,
                   passes, lineLog, gathered, firstPass>>

\* "Apply selection blending (for angle mode, blend after unrotate)"
BlendSelection ==
    /\ pc = "BlendSelection"
    /\ fullImage' = BlendSelectionImage(fullImage, origImage, fullSelect)
    /\ pc' = "Scatter"
    /\ trace' = Append(trace, "BlendSelection")
    /\ UNCHANGED <<restart, blockIndex, result, hostState, props, dest, source,
                   select, fullW, fullH, currentParams, rng, mt, tieOrder,
                   origImage, fullSelect, rotImage, sortW, sortH, useAngle, y,
                   passes, lineLog, gathered, firstPass>>

\* "Write back to destination blocks", then blockIndex = blockRectCount
Scatter ==
    /\ pc = "Scatter"
    /\ dest' = ScatterImage(dest, fullImage, fullW, fullH,
                            BlockRects(fullW, fullH))
    /\ blockIndex' = BlockIndexAfterPass(blockIndex, BlockRectCount)
    /\ pc' = "LoopTail"
    /\ trace' = Append(trace, "Scatter")
    /\ firstPass' = IF firstPass.done THEN firstPass
                    ELSE [done |-> TRUE, params |-> currentParams,
                          input |-> gathered, sel |-> fullSelect,
                          output |-> fullImage]
    /\ UNCHANGED <<restart, result, hostState, props, source, select, fullW,
                   fullH, currentParams, rng, mt, tieOrder, fullImage,
                   origImage, fullSelect, rotImage, sortW, sortH, useAngle, y,
                   passes, lineLog, gathered>>

\* the loop tail: Process(Continue) or Process(End) and the host's answer.
\* Before it answers Restart the host resets the destination to the source
\* image and may have changed the properties (here: back to their defaults).
ProcessEnd ==
    /\ pc = "LoopTail"
    /\ LET bi == IF blockIndex < BlockRectCount THEN blockIndex + 1
                 ELSE blockIndex
       IN  /\ blockIndex' = bi
           /\ hostState' = IF bi < BlockRectCount THEN "Continue" ELSE "End"
    /\ \E answer \in {"Continue", "Restart", "Exit"} :
        CASE answer = "Restart" ->
               /\ passes < MaxPasses
               /\ restart' = TRUE
               /\ pc' = "LoopHead"
               /\ result' = result
               /\ props' \in {props, DefaultProps}
               /\ dest' = source
          [] answer = "Exit" ->
               /\ pc' = "Returned"
               /\ result' = "Success"
               /\ UNCHANGED <<restart, props, dest>>
          [] OTHER ->
               /\ pc' = "LoopTail"
               /\ UNCHANGED <<restart, result, props, dest>>
    /\ UNCHANGED <<source, select, fullW, fullH, currentParams, rng, mt,
                   tieOrder, fullImage, origImage, fullSelect, rotImage, sortW,
                   sortH, useAngle, y, passes, trace, lineLog, gathered,
                   firstPass>>

Next ==
    \/ ProcessStart
    \/ Gather
    \/ Rotate
    \/ SortLines
    \/ Unrotate
    \/ BlendSelection
    \/ Scatter
    \/ ProcessEnd

---------------------------------------------------------------------------
(* Initial states: what the host hands to FilterRun *)

pA == <<9, 0, 0>>

pB == <<2, 5, 0>>

pC == <<2, 0, 7>>

pD == <<4, 4, 4>>

\* destination contents, 2 x 2
Images == {<<pA, pB, pC, pD>>, <<pC, pA, pB, pB>>}

Masks == {NoSelection, <<128, 0, 128, 255>>}

PropChoices ==
    [direction : {kSortDirectionHorizontal, kSortDirectionVertical},
     sortKey : {kSortKeyRed},
     intervalMode : {kIntervalModeThreshold, kIntervalModeRandom,
                     kIntervalModeEdges, kIntervalModeWaves,
                     kIntervalModeNone},
     lowerThreshold : {1}, upperThreshold : {5}, reverse : {FALSE},
     jitter : {0, 1}, spanMin : {1}, spanMax : {0}, angle : {0, 37},
     falloff : {0, 50, 100}]

Streams == [0..(StreamLen - 1) -> 0..RawMax]

\* the locals of FilterRun as it enters its loop
InitLocals ==
    /\ pc = "LoopHead"
    /\ restart = TRUE
    /\ blockIndex = 0
    /\ result = "Failed"
    /\ hostState = "None"
    /\ currentParams = MakeDefaultParams
    /\ rng = RngSeed
    /\ fullImage = <<>>
    /\ origImage = <<>>
    /\ fullSelect = NoSelection
    /\ rotImage = <<>>
    /\ sortW = 0
    /\ sortH = 0
    /\ useAngle = FALSE
    /\ y = 0
    /\ passes = 0
    /\ trace = <<>>
    /\ lineLog = NoLine
    /\ gathered = <<>>
    /\ firstPass = NoPass

Init ==
    /\ InitLocals
    /\ fullW = 2
    /\ fullH = 2
    /\ source \in Images
    /\ dest = source
    /\ select \in Masks
    /\ props \in PropChoices
    /\ mt \in Streams
    /\ tieOrder \in {"stable", "reversed"}

Spec == Init /\ [][Next]_vars

---------------------------------------------------------------------------
(* One line: FilterRun at the head of its row loop, in a Horizontal pass   *)
(* at angle 0 over a one-row image, as ProcessStart and Gather leave it.   *)

Palette == {pA, pB, pC, pD}

AtRowLoop(line, sel, p) ==
    /\ pc = "SortLines"
    /\ restart = FALSE
    /\ blockIndex = 0
    /\ result = "Failed"
    /\ hostState = "Start"
    /\ props = p
    /\ currentParams = ReadAllProperties(p)
    /\ rng = SeedRng(RngSeed)
    /\ fullW = Len(line)
    /\ fullH = 1
    /\ source = line
    /\ dest = line
    /\ select = sel
    /\ fullImage = line
    /\ gathered = line
    /\ fullSelect = sel
    /\ origImage = SaveOriginal(sel, sel, line)
    /\ rotImage = <<>>
    /\ sortW = Len(line)
    /\ sortH = 1
    /\ useAngle = FALSE
    /\ y = 0
    /\ passes = 1
    /\ trace = <<"Gather">>
    /\ lineLog = NoLine
    /\ firstPass = NoPass

NextLine ==
    \/ SortLines
    \/ Scatter

\* lines of four different pixels, and lines with repeated pixels
Lines ==
    {l \in [1..4 -> Palette] : \A i, j \in 1..4 : l[i] = l[j] => i = j}
    \cup {<<pB, pC, pB, pC>>, <<pC, pC, pB, pA>>, <<pD, pD, pD, pD>>,
          <<pB, pC, pA>>, <<pA, pC>>, <<pA>>}

LineProps ==
    [direction : {kSortDirectionHorizontal},
     sortKey : {kSortKeyBrightness, kSortKeyRed},
     intervalMode : {kIntervalModeThreshold, kIntervalModeRandom,
                     kIntervalModeEdges, kIntervalModeWaves,
                     kIntervalModeNone},
     lowerThreshold : {1}, upperThreshold : {5}, reverse : BOOLEAN,
     jitter : {0, 1}, spanMin : {1}, spanMax : {0, 2}, angle : {0},
     falloff : {0, 50, 100}]

InitLine ==
    /\ mt \in Streams
    /\ tieOrder \in {"stable", "reversed"}
    /\ \E line \in Lines, p \in LineProps : AtRowLoop(line, NoSelection, p)

SpecLine == InitLine /\ [][NextLine]_vars

\* one line under a selection mask
LineMasks ==
    {<<255, 128, 1, 254>>, <<128, 0, 128, 255>>, <<0, 77, 0, 0>>,
     <<255, 255, 255, 255>>}

MaskProps ==
    [direction : {kSortDirectionHorizontal}, sortKey : {kSortKeyRed},
     intervalMode : {kIntervalModeThreshold, kIntervalModeNone},
     lowerThreshold : {1}, upperThreshold : {5}, reverse : BOOLEAN,
     jitter : {0, 1}, spanMin : {1}, spanMax : {0, 2}, angle : {0},
     falloff : {0, 50}]

InitMask ==
    /\ mt \in Streams
    /\ tieOrder \in {"stable", "reversed"}
    /\ \E line \in {l \in Lines : Len(l) = 4}, sel \in LineMasks,
          p \in MaskProps : AtRowLoop(line, sel, p)

SpecMask == InitMask /\ [][NextLine]_vars

\* span detection: lines of 5 pixels of two kinds, lines of 7 that start with
\* two pixels in the threshold band, and the line of
\* hues 36, 180, 180, 324, 72 degrees (normalised 0.1, 0.5, 0.5, 0.9, 0.2);
\* lines of 12 and 32 pixels, long enough for Random and Waves to give
\* several spans; a line of one pixel
HueLine == <<<<5, 3, 0>>, <<0, 5, 5>>, <<0, 5, 5>>, <<5, 0, 3>>, <<4, 5, 0>>>>

\* a line of n pixels, every third one outside the threshold band
LongLine(n) == [i \in 1..n |-> IF i % 3 = 0 THEN pA ELSE pD]

SpanLines ==
    [1..5 -> {pD, pA}]
    \cup {l \in [1..7 -> {pD, pA}] : l[1] = pD /\ l[2] = pD}
    \cup {HueLine, LongLine(12), LongLine(32), <<pD>>}

SpanProps ==
    [direction : {kSortDirectionHorizontal},
     sortKey : {kSortKeyRed},
     intervalMode : {kIntervalModeThreshold, kIntervalModeRandom,
                     kIntervalModeEdges, kIntervalModeWaves,
                     kIntervalModeNone},
     lowerThreshold : {1}, upperThreshold : {5}, reverse : {FALSE},
     jitter : {0}, spanMin : {1, 2, 3}, spanMax : {0, 2, 3}, angle : {0},
     falloff : {0}]

InitSpans ==
    /\ mt \in Streams
    /\ tieOrder = "stable"
    /\ \E line \in SpanLines, p \in SpanProps :
          AtRowLoop(line, NoSelection, p)

SpecSpans == InitSpans /\ [][NextLine]_vars

---------------------------------------------------------------------------
(* One line without a mask or under a mask of the values 0 and 255 only,   *)
(* in every interval mode.                                                 *)

MixedLine == <<pD, pB, pA, pD, pC, pB, pA, pD, pB, pC, pA, pB>>

\* a line and the selection values of its positions
PermuteInputs ==
    ({<<pA, pB, pC, pD>>, <<pD, pC, pB, pA>>, <<pB, pC, pB, pC>>,
      <<pD, pA, pC, pB>>}
     \X {NoSelection, <<255, 0, 255, 255>>, <<0, 255, 255, 0>>})
    \cup ({MixedLine}
          \X {NoSelection,
              <<255, 255, 0, 255, 0, 255, 255, 255, 0, 255, 255, 255>>})

PermuteProps ==
    [direction : {kSortDirectionHorizontal}, sortKey : {kSortKeyRed},
     intervalMode : {kIntervalModeThreshold, kIntervalModeRandom,
                     kIntervalModeEdges, kIntervalModeWaves,
                     kIntervalModeNone},
     lowerThreshold : {1}, upperThreshold : {5}, reverse : BOOLEAN,
     jitter : {0, 1}, spanMin : {1}, spanMax : {0, 3}, angle : {0},
     falloff : {0, 50}]

InitPermute ==
    /\ mt \in Streams
    /\ tieOrder \in {"stable", "reversed"}
    /\ \E in \in PermuteInputs, p \in PermuteProps :
          AtRowLoop(in[1], in[2], p)

SpecPermute == InitPermute /\ [][NextLine]_vars

---------------------------------------------------------------------------
(* A whole pass over a 4 x 1 image of grey pixels of brightness 200, 50,   *)
(* 220 and 10, in Threshold mode.                                          *)

g200 == <<200, 200, 200>>

g50 == <<50, 50, 50>>

g220 == <<220, 220, 220>>

g10 == <<10, 10, 10>>

ScenarioImages ==
    {l \in [1..4 -> {g200, g50, g220, g10}] :
        \A i, j \in 1..4 : l[i] = l[j] => i = j}

ScenarioProps ==
    [direction : {kSortDirectionHorizontal}, sortKey : {kSortKeyBrightness},
     intervalMode : {kIntervalModeThreshold},
     lowerThreshold : {0, 40}, upperThreshold : {255, 210},
     reverse : BOOLEAN, jitter : {0}, spanMin : {1}, spanMax : {0},
     angle : {0}, falloff : {0}]

InitScenario ==
    /\ InitLocals
    /\ fullW = 4
    /\ fullH = 1
    /\ source \in ScenarioImages
    /\ dest = source
    /\ select = NoSelection
    /\ props \in ScenarioProps
    /\ mt \in Streams
    /\ tieOrder \in {"stable", "reversed"}

NextScenario ==
    \/ ProcessStart
    \/ Gather
    \/ SortLines
    \/ Scatter
    \/ ProcessEnd

SpecScenario == InitScenario /\ [][NextScenario]_vars

---------------------------------------------------------------------------
(* Property values outside their ranges: a whole pass over a 2 x 1 image   *)
(* with the values the host returns taken from below, inside and above     *)
(* each range.  ClampParams repairs each field on its own, except for the  *)
(* pairs lower/upper threshold and spanMin/spanMax, so the fields are      *)
(* varied in three groups around the values of BaseProps.                  *)

BaseProps ==
    [direction |-> kSortDirectionHorizontal, sortKey |-> kSortKeyRed,
     intervalMode |-> kIntervalModeNone, lowerThreshold |-> 1,
     upperThreshold |-> 5, reverse |-> FALSE, jitter |-> 0, spanMin |-> 1,
     spanMax |-> 0, angle |-> 0, falloff |-> 0]

RawProps ==
    {[BaseProps EXCEPT !.direction = d, !.sortKey = k, !.intervalMode = m,
                       !.angle = a] :
        d \in {-1, 0, 1, 2}, k \in {-1, 5, 8}, m \in {-1, 4, 5},
        a \in {-720, -323, 37, 360, 560}}
    \cup {[BaseProps EXCEPT !.lowerThreshold = lo, !.upperThreshold = hi,
                            !.jitter = j, !.falloff = f] :
             lo \in {-5, 5, 300}, hi \in {-7, 1, 300}, j \in {-1, 101},
             f \in {-1, 101}}
    \cup {[BaseProps EXCEPT !.spanMin = mn, !.spanMax = mx] :
             mn \in {0, 3, 10001}, mx \in {-1, 0, 2, 10001}}

InitClamp ==
    /\ InitLocals
    /\ fullW = 2
    /\ fullH = 1
    /\ source = <<pA, pD>>
    /\ dest = source
    /\ select \in {NoSelection, <<255, 0>>}
    /\ props \in RawProps
    /\ mt \in Streams
    /\ tieOrder = "stable"

SpecClamp == InitClamp /\ [][Next]_vars

---------------------------------------------------------------------------
(* Whole passes over a 2 x 1 image whose channels take values from all of  *)
(* 0..255, under a mask of values between 0 and 255, with and without      *)
(* rotation: the two places that blend.                                    *)

ChannelValues == {0, 1, 2, 100, 127, 128, 200, 253, 254, 255}

PartialMaskValues == {1, 127, 128, 254}

BlendProps == {[BaseProps EXCEPT !.angle = a] : a \in {0, 37}}

InitBlend ==
    /\ InitLocals
    /\ fullW = 2
    /\ fullH = 1
    /\ \E a, b \in ChannelValues : source = <<<<a, b, 0>>, <<b, a, 255>>>>
    /\ dest = source
    /\ \E m, n \in PartialMaskValues : select = <<m, n>>
    /\ props \in BlendProps
    /\ mt = [i \in 0..(StreamLen - 1) |-> 0]
    /\ tieOrder = "stable"

SpecBlend == InitBlend /\ [][Next]_vars

---------------------------------------------------------------------------
(* Properties *)

\* the sort key of a pixel, as SortLine computes it for the pass
KeyOf(px) == GetSortValue(px[1], px[2], px[3], currentParams.sortKey)

\* the records of the spans of the last sorted line that reached the write-back
SortedRecords ==
    {r \in 1..Len(lineLog.log) : lineLog.log[r].outcome = "sorted"}

\* a pass has the same clamped Params, gathered buffer and mask as the first
SameAsFirstPass ==
    /\ firstPass.done
    /\ currentParams = firstPass.params
    /\ gathered = firstPass.input
    /\ fullSelect = firstPass.sel

\* C1: every pass starts its lines with the generator at the fixed seed, and
\* a finished pass with the same clamped Params, gathered buffer and mask as
\* the first finished pass has the same output buffer as that pass.
C1_PassesDeterministic ==
    /\ (pc \in {"Gather", "Rotate"} \/ (pc = "SortLines" /\ y = 0))
          => rng = RngSeed
    /\ (pc = "LoopTail" /\ SameAsFirstPass) => fullImage = firstPass.output

\* a second pass on the same input as the first, which drew from the
\* generator for its jitter and changed the image
C1_SecondPassSameInput ==
    /\ pc = "LoopTail"
    /\ passes = 2
    /\ SameAsFirstPass
    /\ currentParams.jitter > 0
    /\ rng > RngSeed
    /\ fullImage # gathered

\* keys over positions [s, e) of a line in the order the pass asks for
Monotone(line, s, e, reverse) ==
    \A i \in s..(e - 2) :
        IF reverse
        THEN RatLeq(KeyOf(PixelAt(line, i + 1)), KeyOf(PixelAt(line, i)))
        ELSE RatLeq(KeyOf(PixelAt(line, i)), KeyOf(PixelAt(line, i + 1)))

\* C2: with jitter 0 and no selection mask, the keys of the pixels written
\* back to a processed span are non-decreasing in position order when
\* reverse is false and non-increasing when reverse is true.
C2_SortMonotone ==
    (lineLog.rowIndex >= 0 /\ currentParams.jitter = 0
       /\ lineLog.sel = NoSelection)
    => \A r \in SortedRecords :
          Monotone(lineLog.line, lineLog.log[r].start, lineLog.log[r].end,
                   currentParams.reverse)

\* a reversed sort of a span that was not in non-increasing order before
C2_ReversedSpanSorted ==
    /\ lineLog.rowIndex >= 0
    /\ currentParams.jitter = 0
    /\ currentParams.reverse
    /\ \E r \in SortedRecords :
          /\ lineLog.log[r].end - lineLog.log[r].start >= 3
          /\ ~Monotone(lineLog.before, lineLog.log[r].start,
                       lineLog.log[r].end, TRUE)

\* C3: in a non-rotated pass, at a qualifying position of a processed span
\* with mask value m, the output is the sorted pixel when m = 255 and, when
\* 0 < m < 255, each channel is orig + (sorted - orig) * m / 255 with the
\* division truncated toward zero, orig being the value before the pass.
C3_BlendFormula ==
    (lineLog.rowIndex >= 0 /\ ~useAngle /\ lineLog.sel # NoSelection)
    => \A r \in SortedRecords :
          \A i \in 1..Len(lineLog.log[r].included) :
              LET idx == lineLog.log[r].start + lineLog.log[r].included[i]
                  m == SelAt(lineLog.sel, idx)
                  orig == PixelAt(gathered, idx)
                  srt == lineLog.log[r].work[i]
                  out == PixelAt(fullImage, idx)
              IN  /\ m = 255 => out = srt
                  /\ (0 < m /\ m < 255) =>
                        \A c \in 1..3 :
                            out[c] = orig[c]
                                     + TruncDiv((srt[c] - orig[c]) * m, 255)

\* a blended position where the sorted channel is below the original and the
\* quotient is not exact, so that the direction of the rounding shows
C3_BlendRoundsTowardZero ==
    /\ lineLog.rowIndex >= 0
    /\ lineLog.sel # NoSelection
    /\ \E r \in SortedRecords :
          \E i \in 1..Len(lineLog.log[r].included) :
              LET idx == lineLog.log[r].start + lineLog.log[r].included[i]
                  m == SelAt(lineLog.sel, idx)
                  orig == PixelAt(gathered, idx)
                  srt == lineLog.log[r].work[i]
              IN  /\ 0 < m /\ m < 255
                  /\ \E c \in 1..3 :
                        /\ srt[c] < orig[c]
                        /\ ((orig[c] - srt[c]) * m) % 255 # 0
                        /\ PixelAt(fullImage, idx)[c] # orig[c]

\* C4: after a complete pass with a selection mask present, every pixel whose
\* mask value is 0 equals its value in the gathered input, in the full image
\* and in the destination it is written to.
C4_MaskZeroUnchanged ==
    (pc = "LoopTail" /\ passes > 0 /\ fullSelect # NoSelection)
    => \A j \in 1..(fullW * fullH) :
          fullSelect[j] = 0 =>
              /\ fullImage[j] = gathered[j]
              /\ dest[j] = gathered[j]

\* a finished rotated pass whose unrotated buffer differed from the input at
\* a pixel of mask value 0
C4_RotatedPassMaskZero ==
    /\ pc = "LoopTail"
    /\ useAngle
    /\ fullSelect # NoSelection
    /\ \E j \in 1..(fullW * fullH) :
          /\ fullSelect[j] = 0
          /\ UnrotateImage(rotImage, fullW, fullH, sortW, sortH,
                           currentParams.angle)[j] # gathered[j]

RECURSIVE JitterDraws(_)
\* the jitter draws of the first r spans of the last sorted line
JitterDraws(r) ==
    IF r = 0 THEN 0
    ELSE JitterDraws(r - 1)
         + (IF lineLog.log[r].outcome = "sorted" /\ currentParams.jitter > 0
            THEN Len(lineLog.log[r].work) ELSE 0)

\* the draws DetectSpansRandom takes: a length and a gap for each span
DetectionDraws ==
    IF currentParams.intervalMode = kIntervalModeRandom
    THEN 2 * Len(lineLog.detected) ELSE 0

\* C5: with falloff 100 every span is skipped and the line is left as it was
\* whatever the generator returns; with falloff 0 no span is skipped for
\* falloff and the generator gives no falloff draw (all its draws of the line
\* are those of the span detection and of the jitter).
C5_FalloffExtremes ==
    lineLog.rowIndex >= 0 =>
       /\ currentParams.falloff = 100 =>
             /\ lineLog.line = lineLog.before
             /\ \A r \in 1..Len(lineLog.log) :
                   lineLog.log[r].outcome \in {"short", "falloff"}
       /\ currentParams.falloff = 0 =>
             /\ \A r \in 1..Len(lineLog.log) :
                   /\ lineLog.log[r].outcome # "falloff"
                   /\ lineLog.log[r].draw = -1
             /\ lineLog.rng - lineLog.rngBefore
                   = DetectionDraws + JitterDraws(Len(lineLog.log))

\* falloff 100 with the largest draw, 99, on a span a sort would change
C5_LargestDrawStillSkips ==
    /\ lineLog.rowIndex >= 0
    /\ currentParams.falloff = 100
    /\ currentParams.jitter = 0
    /\ \E r \in 1..Len(lineLog.log) :
          /\ lineLog.log[r].outcome = "falloff"
          /\ lineLog.log[r].draw = 99
          /\ ~Monotone(lineLog.before, lineLog.log[r].start,
                       lineLog.log[r].end, currentParams.reverse)

\* v is within the thresholds of the pass: lower / 255 <= v <= upper / 255
InBand(line, i) ==
    LET px == PixelAt(line, i)
        v == GetSortValueNorm(px[1], px[2], px[3], currentParams.sortKey)
    IN  /\ currentParams.lowerThreshold * v[2] <= v[1] * 255
        /\ v[1] * 255 <= currentParams.upperThreshold * v[2]

\* spans are the maximal runs of in-band positions of the line, ascending
MaximalRuns(line, spans) ==
    /\ \A s \in 1..Len(spans) :
          /\ 0 <= spans[s].start
          /\ spans[s].start < spans[s].end
          /\ spans[s].end <= Len(line)
          /\ \A i \in spans[s].start..(spans[s].end - 1) : InBand(line, i)
    /\ \A i \in 0..(Len(line) - 1) :
          InBand(line, i) =>
              \E s \in 1..Len(spans) :
                  spans[s].start <= i /\ i < spans[s].end
    /\ \A s \in 1..(Len(spans) - 1) : spans[s].end < spans[s + 1].start

\* C6: DetectSpansThreshold returns exactly the maximal runs of positions
\* whose normalised sort value lies within [lowerNorm, upperNorm], in
\* ascending order, a run that reaches the end of the line being closed at n;
\* values 0.1, 0.5, 0.5, 0.9, 0.2 with bounds 0.3 and 0.6 give exactly [1, 3).
C6_ThresholdMaximalRuns ==
    /\ (lineLog.rowIndex >= 0
          /\ currentParams.intervalMode = kIntervalModeThreshold)
       => MaximalRuns(lineLog.before, lineLog.detected)
    /\ DetectSpansThreshold(HueLine, <<3, 10>>, <<6, 10>>, kSortKeyHue)
          = <<MkSpan(1, 3)>>

\* a Threshold line with a gap before its first run, a gap between two runs,
\* and a last run that reaches the end of the line
C6_RunReachesLineEnd ==
    /\ lineLog.rowIndex >= 0
    /\ currentParams.intervalMode = kIntervalModeThreshold
    /\ Len(lineLog.detected) >= 2
    /\ lineLog.detected[1].start > 0
    /\ lineLog.detected[Len(lineLog.detected)].end = Len(lineLog.before)

\* the detected spans that are not shorter than spanMin, in order
KeptSpans(spans, spanMin) ==
    SelectSeq(spans, LAMBDA sp : ~(sp.end - sp.start < spanMin))

\* consecutive pieces of length m of a span, the last one possibly shorter
Pieces(sp, m) ==
    [k \in 1..CeilDiv(sp.end - sp.start, m) |->
        MkSpan(sp.start + (k - 1) * m, Min2(sp.start + k * m, sp.end))]

RECURSIVE PiecesOfAll(_, _, _)
PiecesOfAll(spans, i, m) ==
    IF i > Len(spans) THEN <<>>
    ELSE Pieces(spans[i], m) \o PiecesOfAll(spans, i + 1, m)

ExpectedSpans(detected, spanMin, spanMax) ==
    IF spanMax > 0 THEN PiecesOfAll(KeptSpans(detected, spanMin), 1, spanMax)
    ELSE KeptSpans(detected, spanMin)

\* C7: after every strategy DetectSpans drops the detected spans shorter than
\* spanMin, keeps the others in order, and then, when spanMax > 0, replaces
\* each of them by consecutive sub-spans of length spanMax with a possibly
\* shorter last one, never across a span boundary and without filtering the
\* sub-spans by spanMin again.
C7_PostFilter ==
    /\ lineLog.rowIndex >= 0 =>
          lineLog.spans = ExpectedSpans(lineLog.detected,
                                        currentParams.spanMin,
                                        currentParams.spanMax)
    /\ FilterSpanMin(<<MkSpan(0, 2), MkSpan(2, 7)>>, 3) = <<MkSpan(2, 7)>>
    /\ CapSpanMax(<<MkSpan(2, 7)>>, 2)
          = <<MkSpan(2, 4), MkSpan(4, 6), MkSpan(6, 7)>>

\* a line on which a detected span is dropped for spanMin, a kept span is
\* split, and a sub-span shorter than spanMin stays in the result
C7_DroppedAndSplit ==
    /\ lineLog.rowIndex >= 0
    /\ currentParams.spanMin = 3
    /\ currentParams.spanMax > 0
    /\ \E d \in 1..Len(lineLog.detected) :
          lineLog.detected[d].end - lineLog.detected[d].start < 3
    /\ Len(lineLog.spans) > Len(KeptSpans(lineLog.detected, 3))
    /\ \E s \in 1..Len(lineLog.spans) :
          lineLog.spans[s].end - lineLog.spans[s].start < 3

\* C8: with intervalMode None, jitter 0, falloff 0, reverse false and no
\* mask, SortLine leaves a line that is already in ascending order of the
\* sort key unchanged, lines with equal keys on different pixels included.
C8_AscendingLineUnchanged ==
    (/\ lineLog.rowIndex >= 0
     /\ currentParams.intervalMode = kIntervalModeNone
     /\ currentParams.jitter = 0
     /\ currentParams.falloff = 0
     /\ ~currentParams.reverse
     /\ lineLog.sel = NoSelection
     /\ Monotone(lineLog.before, 0, Len(lineLog.before), FALSE))
    => lineLog.line = lineLog.before

\* C9: the pass over the image of brightness 200, 50, 220, 10 with Threshold
\* 0..255, key Brightness, no reverse, jitter, falloff or mask detects the
\* whole line as one span and writes the pixels out in the order 3, 1, 0, 2.
C9_EndToEndScenario ==
    (/\ pc = "LoopTail"
     /\ gathered = <<g200, g50, g220, g10>>
     /\ currentParams.lowerThreshold = 0
     /\ currentParams.upperThreshold = 255
     /\ ~currentParams.reverse)
    => /\ lineLog.detected = <<MkSpan(0, 4)>>
       /\ lineLog.spans = <<MkSpan(0, 4)>>
       /\ fullImage = <<g10, g50, g200, g220>>
       /\ dest = <<g10, g50, g200, g220>>

\* the scenario's pass has run from its start to the write-back
C9_ScenarioPassDone ==
    /\ pc = "LoopTail"
    /\ passes = 1
    /\ gathered = <<g200, g50, g220, g10>>
    /\ currentParams.lowerThreshold = 0
    /\ currentParams.upperThreshold = 255
    /\ ~currentParams.reverse
    /\ trace = <<"Gather", "SortLines", "Scatter">>
    /\ lineLog.log[1].outcome = "sorted"

\* C10: at angle 0 the working buffer of a rotation has the size of the
\* image, each pixel maps to its own coordinates both ways, rotate followed
\* by unrotate gives the buffer back, and the pass performs no rotation.
C10_AngleZeroIdentity ==
    (pc \in {"Rotate", "SortLines", "Unrotate", "BlendSelection", "Scatter"}
       /\ currentParams.angle = 0)
    => /\ RotatedSize(fullW, fullH, 0) = <<fullW, fullH>>
       /\ \A xx \in 0..(fullW - 1), yy \in 0..(fullH - 1) :
             /\ RotateSource(xx, yy, fullW, fullH, fullW, fullH, 0)
                   = <<xx, yy>>
             /\ UnrotateSource(xx, yy, fullW, fullH, fullW, fullH, 0)
                   = <<xx, yy>>
       /\ UnrotateImage(RotateImage(fullImage, fullW, fullH, 0),
                        fullW, fullH, fullW, fullH, 0) = fullImage
       /\ ~useAngle
       /\ rotImage = <<>>
       /\ sortW = fullW /\ sortH = fullH

\* a Horizontal pass at angle 0 that changed the image and is about to write
\* it back without a rotate or unrotate step
C10_AngleZeroPassSorted ==
    /\ pc = "Scatter"
    /\ currentParams.angle = 0
    /\ currentParams.direction = kSortDirectionHorizontal
    /\ fullImage # gathered
    /\ \A t \in 1..Len(trace) : trace[t] \in {"Gather", "SortLines"}

\* every field of a Params record is within its range
ValidParams(p) ==
    /\ p.direction \in {0, 1}
    /\ p.sortKey \in 0..7
    /\ p.intervalMode \in 0..4
    /\ 0 <= p.lowerThreshold
    /\ p.lowerThreshold <= p.upperThreshold
    /\ p.upperThreshold <= 255
    /\ p.jitter \in 0..100
    /\ p.spanMin \in 1..10000
    /\ (p.spanMax = 0 \/ (p.spanMin <= p.spanMax /\ p.spanMax <= 10000))
    /\ p.angle \in 0..359
    /\ p.falloff \in 0..100

\* C11: whatever the property values, ClampParams gives a record with every
\* field in its range (lower <= upper, spanMax = 0 or >= spanMin, angle in
\* 0..359), and the Params a pass sorts its lines with are those that
\* ReadAllProperties, and so ClampParams, produced.
C11_ParamsValid ==
    /\ ValidParams(ClampParams(props))
    /\ ValidParams(currentParams)
    /\ pc = "SortLines" => currentParams = ReadAllProperties(props)

\* a pass that sorts its lines after the host gave a spanMax below spanMin,
\* which the clamp raised to spanMin
C11_OutOfRangeRepaired ==
    /\ pc = "SortLines"
    /\ ~ValidParams(props)
    /\ props.spanMax > 0
    /\ props.spanMax < props.spanMin
    /\ currentParams.spanMax = currentParams.spanMin

\* spans lie within a line of n pixels, are not empty, ascend and are disjoint
SpansWellFormed(spans, n) ==
    /\ \A i \in 1..Len(spans) :
          /\ 0 <= spans[i].start
          /\ spans[i].start < spans[i].end
          /\ spans[i].end <= n
    /\ \A i \in 1..(Len(spans) - 1) : spans[i].end <= spans[i + 1].start

\* C12: in every interval mode each span DetectSpans returns after its
\* filters satisfies 0 <= start < end <= n, and the spans are in ascending
\* order and pairwise disjoint.
C12_SpansWellFormed ==
    lineLog.rowIndex >= 0 =>
       /\ SpansWellFormed(lineLog.spans, Len(lineLog.before))
       /\ SpansWellFormed(lineLog.detected, Len(lineLog.before))

\* a Random line with several spans, the last one cut off at the line end,
\* and the spans split by spanMax
C12_RandomSpanCutAtEnd ==
    /\ lineLog.rowIndex >= 0
    /\ currentParams.intervalMode = kIntervalModeRandom
    /\ currentParams.spanMax > 0
    /\ Len(lineLog.detected) >= 2
    /\ LET last == lineLog.detected[Len(lineLog.detected)]
       IN  last.end = Len(lineLog.before) /\ last.end - last.start < 10

\* the pixels of seq whose key equals the key of px, in their order in seq
SameKeyAs(seq, px) ==
    SelectSeq(seq, LAMBDA q :
        KeyOf(q)[1] * KeyOf(px)[2] = KeyOf(px)[1] * KeyOf(q)[2])

\* the qualifying pixels of the span of record r, as they were before the sort
SpanInput(r) ==
    [i \in 1..Len(lineLog.log[r].included) |->
        PixelAt(lineLog.before,
                lineLog.log[r].start + lineLog.log[r].included[i])]

\* C13: the per-span sort is stable: with jitter 0 and reverse false, the
\* qualifying pixels of a span that have equal sort values come out in the
\* relative order they had in the input.
C13_SortStable ==
    (lineLog.rowIndex >= 0 /\ currentParams.jitter = 0
       /\ ~currentParams.reverse)
    => \A r \in SortedRecords :
          \A i \in 1..Len(lineLog.log[r].work) :
              SameKeyAs(lineLog.log[r].work, lineLog.log[r].work[i])
                 = SameKeyAs(SpanInput(r), lineLog.log[r].work[i])

\* rotation is active in the pass
RotationActive ==
    currentParams.direction = kSortDirectionHorizontal
       /\ currentParams.angle # 0

\* the stages of a pass over nLines lines, in their order
ExpectedStages(nLines) ==
    <<"Gather">>
    \o (IF RotationActive THEN <<"Rotate">> ELSE <<>>)
    \o [i \in 1..nLines |-> "SortLines"]
    \o (IF RotationActive THEN <<"Unrotate">> ELSE <<>>)
    \o (IF RotationActive /\ select # NoSelection
        THEN <<"BlendSelection">> ELSE <<>>)
    \o <<"Scatter">>

\* C14: the stages of a pass run in the order Gather, Rotate, SortLines (once
\* per line), Unrotate, BlendSelection, Scatter; Rotate and Unrotate exactly
\* when direction is Horizontal and angle # 0, BlendSelection only when
\* rotation is active and a mask is present; Scatter is the last stage and
\* leaves the final buffer in the destination.
C14_StageOrder ==
    passes > 0 =>
       /\ Len(trace) <= Len(ExpectedStages(LineCount))
       /\ trace = SubSeq(ExpectedStages(LineCount), 1, Len(trace))
       /\ pc \in {"LoopTail", "LoopHead", "Returned"}
             => trace = ExpectedStages(LineCount)
       /\ pc = "LoopTail" => dest = fullImage

\* a finished pass that ran all six stages
C14_AllStagesRan ==
    /\ pc = "LoopTail"
    /\ Len(trace) >= 6
    /\ trace[2] = "Rotate"
    /\ trace[Len(trace) - 2] = "Unrotate"
    /\ trace[Len(trace) - 1] = "BlendSelection"
    /\ trace[Len(trace)] = "Scatter"

\* line is line number k of the sort buffer: a row in a Horizontal pass, a
\* column in a Vertical one
IsLineOfBuffer(line, k) ==
    IF currentParams.direction = kSortDirectionHorizontal
    THEN /\ Len(line) = sortW
         /\ \A j \in 1..sortW : line[j] = SortBuf[k * sortW + j]
    ELSE /\ Len(line) = sortH
         /\ \A j \in 1..sortH : line[j] = SortBuf[(j - 1) * sortW + k + 1]

\* one step of the line loop: line y is sorted, from the generator state the
\* line before it left, its spans being those detected on the line as it was
SortsLineInOrder ==
    /\ y < LineCount
    /\ y' = y + 1
    /\ lineLog'.rowIndex = y
    /\ IsLineOfBuffer(lineLog'.before, y)
    /\ lineLog'.rngBefore = rng
    /\ rng' = lineLog'.rng
    /\ lineLog'.spans
          = DetectSpans(lineLog'.before, currentParams, y, rng).spans
    /\ y > 0 => (lineLog.rowIndex = y - 1 /\ rng = lineLog.rng)
    /\ y = 0 => rng = RngSeed
    /\ pc' # "SortLines" => y' = LineCount

\* C15: within a pass the lines are handled in ascending index order from 0,
\* each once (rows when Horizontal, columns when Vertical), the spans of a
\* line are detected on it before it is sorted, and the generator is not
\* re-seeded between lines: line k + 1 starts from the state line k left.
C15_LinesInOrder == [][pc = "SortLines" => SortsLineInOrder]_vars

\* the loop is about to sort its second line, the first one having drawn
\* from the generator
C15_SecondLineContinuesStream ==
    /\ pc = "SortLines"
    /\ y = 1
    /\ lineLog.rowIndex = 0
    /\ rng = lineLog.rng
    /\ rng > lineLog.rngBefore

\* The case C16 speaks of: a pixel of the image whose coordinates in the
\* rotated canvas lie outside the canvas.  The canvas is the bounding box of
\* the rotated image, so when Unrotate starts every pixel has its source
\* inside it and the case does not arise.
UnrotateSourcesInCanvas ==
    pc = "Unrotate" =>
       \A fx \in 0..(fullW - 1), fy \in 0..(fullH - 1) :
           LET r == UnrotateSource(fx, fy, fullW, fullH, sortW, sortH,
                                   currentParams.angle)
           IN  /\ 0 <= r[1] /\ r[1] < sortW
               /\ 0 <= r[2] /\ r[2] < sortH

\* the generator state when the span loop reaches the span of record r
RngAtSpan(r) ==
    IF r = 1 THEN lineLog.rngBefore + DetectionDraws
    ELSE lineLog.log[r - 1].rngAfter

\* the pixels of positions [s, e) are the same in both lines
SameOver(lineA, lineB, s, e) ==
    \A i \in s..(e - 1) : PixelAt(lineA, i) = PixelAt(lineB, i)

\* C17 as stated: with falloff > 0 every span DetectSpans returned has one
\* falloff draw in [0, 99], whatever its length and however many positions
\* the mask admits, and is skipped for falloff exactly when the draw is less
\* than falloff.
C17_DrawForEverySpan ==
    (lineLog.rowIndex >= 0 /\ currentParams.falloff > 0)
    => /\ Len(lineLog.log) = Len(lineLog.spans)
       /\ \A r \in 1..Len(lineLog.log) :
             /\ lineLog.log[r].draw \in 0..99
             /\ lineLog.log[r].outcome = "falloff"
                   <=> lineLog.log[r].draw < currentParams.falloff

\* C17 amended: with falloff > 0 every span of length >= 2 has one falloff
\* draw in [0, 99], taken in span order from the shared generator before the
\* span is read and whatever the mask admits, and is skipped exactly when
\* the draw is less than falloff; a span of length < 2 is skipped without a
\* draw.
C17_DrawForSpansOfTwoOrMore ==
    (lineLog.rowIndex >= 0 /\ currentParams.falloff > 0)
    => /\ Len(lineLog.log) = Len(lineLog.spans)
       /\ \A r \in 1..Len(lineLog.log) :
             LET rec == lineLog.log[r]
                 sp == lineLog.spans[r]
             IN  /\ rec.start = sp.start /\ rec.end = sp.end
                 /\ IF sp.end - sp.start < 2
                    THEN /\ rec.outcome = "short"
                         /\ rec.draw = -1
                         /\ rec.rngAfter = RngAtSpan(r)
                    ELSE /\ rec.draw \in 0..99
                         /\ rec.draw = UniformInt(0, 99, RngAtSpan(r))
                         /\ rec.outcome = "falloff"
                               <=> rec.draw < currentParams.falloff
                         /\ rec.outcome \in {"falloff", "few"}
                               => /\ rec.rngAfter = RngAtSpan(r) + 1
                                  /\ SameOver(lineLog.line, lineLog.before,
                                              sp.start, sp.end)
                         /\ rec.outcome = "sorted"
                               => rec.rngAfter =
                                     RngAtSpan(r) + 1
                                     + (IF currentParams.jitter > 0
                                        THEN Len(rec.work) ELSE 0)

\* a line with a span of one pixel, which has no draw, and a longer span in
\* which the mask admits one position only, which has its draw
C17_ShortSpanAndMaskedSpan ==
    /\ lineLog.rowIndex >= 0
    /\ currentParams.falloff > 0
    /\ \E r \in 1..Len(lineLog.log) :
          lineLog.log[r].outcome = "short" /\ lineLog.log[r].draw = -1
    /\ \E r \in 1..Len(lineLog.log) :
          /\ lineLog.log[r].outcome = "few"
          /\ lineLog.log[r].draw >= currentParams.falloff

\* the generator state when the jitter of the span of record r starts
RngAtJitter(r) ==
    RngAtSpan(r) + (IF currentParams.falloff > 0 THEN 1 ELSE 0)

\* the offset drawn for position i (0-based) of the span of record r
JitterOffset(r, i) ==
    LET raw == mt[(RngAtJitter(r) + i) % StreamLen]
    IN  (raw * (2 * currentParams.jitter)) \div RawMax - currentParams.jitter

RECURSIVE JitterPass(_, _, _)
\* the left-to-right pass over positions 0..i-1: position m is exchanged
\* with position m + offset, kept within 0..count-1
JitterPass(seq, r, i) ==
    IF i = 0 THEN seq
    ELSE LET prev == JitterPass(seq, r, i - 1)
             m == i - 1
             t0 == m + JitterOffset(r, m)
             t == IF t0 < 0 THEN 0
                  ELSE IF t0 > Len(seq) - 1 THEN Len(seq) - 1 ELSE t0
         IN  [j \in 1..Len(seq) |->
                 IF j = m + 1 THEN prev[t + 1]
                 ELSE IF j = t + 1 THEN prev[m + 1]
                 ELSE prev[j]]

\* the qualifying pixels of the span of record r after the sort and reverse
SortedInput(r) ==
    LET sorted == StdSort([i \in 1..Len(SpanInput(r)) |->
                              MkPixelData(SpanInput(r)[i],
                                          currentParams.sortKey)])
        ordered == IF currentParams.reverse THEN Reverse(sorted) ELSE sorted
    IN  [i \in 1..Len(ordered) |-> ordered[i].px]

\* a and b hold the same pixels the same number of times
IsPermutation(a, b) ==
    /\ Len(a) = Len(b)
    /\ \A i \in 1..Len(a) :
          Cardinality({j \in 1..Len(a) : a[j] = a[i]})
             = Cardinality({j \in 1..Len(b) : b[j] = a[i]})

\* C18: with jitter > 0 a processed span of count pixels has one pass over
\* i = 0..count-1 that draws one offset in [-jitter, jitter] for each i
\* (count draws, also when the target is i itself), keeps i + offset within
\* [0, count-1] and swaps the two entries; the result is a permutation of
\* the sorted sequence.
C18_JitterPass ==
    (lineLog.rowIndex >= 0 /\ currentParams.jitter > 0)
    => \A r \in SortedRecords :
          LET rec == lineLog.log[r]
              count == Len(rec.included)
          IN  /\ Len(rec.work) = count
              /\ rec.rngAfter = RngAtJitter(r) + count
              /\ \A i \in 0..(count - 1) :
                    /\ -currentParams.jitter <= JitterOffset(r, i)
                    /\ JitterOffset(r, i) <= currentParams.jitter
              /\ rec.work = JitterPass(SortedInput(r), r, count)
              /\ IsPermutation(rec.work, SortedInput(r))

\* a jittered span of three or more pixels whose first offset points below
\* position 0, so that position 0 is swapped with itself, and whose pass
\* changed the sorted order
C18_JitterClampedToSelf ==
    /\ lineLog.rowIndex >= 0
    /\ currentParams.jitter > 0
    /\ \E r \in SortedRecords :
          /\ Len(lineLog.log[r].work) >= 3
          /\ JitterOffset(r, 0) < 0
          /\ lineLog.log[r].work # SortedInput(r)

\* the parameters under which no part of a pass asks the generator
NoRngParams ==
    /\ currentParams.intervalMode # kIntervalModeRandom
    /\ currentParams.jitter = 0
    /\ currentParams.falloff = 0

\* the current pass has sorted a line: lineLog is a line of this pass
LineOfThisPass ==
    /\ lineLog.rowIndex >= 0
    /\ \E i \in 1..Len(trace) : trace[i] = "SortLines"

RECURSIVE FalloffDraws(_)
\* the falloff draws of the first r spans of the last sorted line
FalloffDraws(r) ==
    IF r = 0 THEN 0
    ELSE FalloffDraws(r - 1) + (IF lineLog.log[r].draw # -1 THEN 1 ELSE 0)

\* C19: in the modes Threshold, Edges, Waves and None with jitter 0 and
\* falloff 0 a pass takes no draw: the generator stays in the state the
\* seeding left it in, and each sorted line is the same from whatever
\* generator state it would start. In every mode the draws of a line are
\* those of Random span detection, of falloff and of jitter, nothing else.
C19_NoDrawWithoutRandomness ==
    /\ NoRngParams => rng = SeedRng(RngSeed)
    /\ LineOfThisPass =>
          /\ lineLog.rng - lineLog.rngBefore
                = DetectionDraws + FalloffDraws(Len(lineLog.log))
                  + JitterDraws(Len(lineLog.log))
          /\ NoRngParams =>
                \A k \in 0..(StreamLen - 1) :
                    SortLine(lineLog.before, currentParams, lineLog.sel,
                             lineLog.rowIndex, k).line = lineLog.line

\* a finished pass in one of the four modes, with jitter 0 and falloff 0, that
\* changed the image while the generator would not have given a constant
C19_PassSortedWithoutDraw ==
    /\ pc = "LoopTail"
    /\ passes > 0
    /\ NoRngParams
    /\ currentParams.intervalMode \in {kIntervalModeEdges, kIntervalModeWaves}
    /\ fullImage # gathered
    /\ \E i, j \in DOMAIN mt : mt[i] # mt[j]

\* the positions of the span of record r that qualify: inside the line and,
\* under a selection, of nonzero mask value
Qualifying(r) ==
    {i \in lineLog.log[r].start..(lineLog.log[r].end - 1) :
        /\ i < Len(lineLog.before)
        /\ (lineLog.sel = NoSelection \/ lineLog.sel[i + 1] # 0)}

\* C20: SortLine leaves a line of length 0 or 1 as it is (a line of length 0
\* also leaves the generator alone and looks at no span); a span with fewer
\* than 2 qualifying positions, because it is shorter than 2 or because the
\* mask admits fewer than 2 of its positions, is not sorted and none of its
\* pixels is written. No error comes of either: the pass goes on to its next
\* stage and FilterRun returns success.
C20_ShortInputsSkipped ==
    /\ LET r0 == SortLine(<<>>, currentParams, NoSelection, 0, rng)
       IN  r0.line = <<>> /\ r0.rng = rng /\ r0.log = <<>>
    /\ LineOfThisPass =>
          /\ Len(lineLog.before) <= 1 =>
                /\ lineLog.line = lineLog.before
                /\ SortedRecords = {}
          /\ \A r \in 1..Len(lineLog.log) :
                (\/ lineLog.log[r].end - lineLog.log[r].start < 2
                 \/ Cardinality(Qualifying(r)) < 2)
                => /\ lineLog.log[r].outcome # "sorted"
                   /\ SameOver(lineLog.line, lineLog.before,
                               lineLog.log[r].start, lineLog.log[r].end)
          /\ pc \in {"SortLines", "Unrotate", "BlendSelection", "Scatter",
                     "LoopTail", "LoopHead", "Returned"}
    /\ pc = "Returned" => result = "Success"

\* FilterRun has returned from a pass over columns of length 1, each with
\* one span of one pixel, and the image is as it was
C20_LengthOneLinesDone ==
    /\ pc = "Returned"
    /\ result = "Success"
    /\ LineOfThisPass
    /\ Len(lineLog.before) = 1
    /\ Len(lineLog.log) = 1
    /\ lineLog.log[1].outcome = "short"
    /\ dest = source

\* a line of two pixels of which the mask admits one
C20_MaskLeavesOnePixel ==
    /\ LineOfThisPass
    /\ \E r \in 1..Len(lineLog.log) :
          /\ lineLog.log[r].outcome = "few"
          /\ lineLog.log[r].end - lineLog.log[r].start >= 2

\* line lengths at which Random detection is looked at on its own; from 48
\* on n / 4 exceeds 11
RandomLineLengths == {1, 11, 48, 100}

\* the i-th length that Random detection draws on a line of n pixels when the
\* generator is in state k
RandomLength(n, k, i) ==
    LET top == IF n \div 4 > 11 THEN n \div 4 ELSE 11
        raw == mt[(k + 2 * (i - 1)) % StreamLen]
    IN  10 + (raw * (top - 10)) \div RawMax

\* the gap it draws after the i-th length
RandomGap(k, i) ==
    LET raw == mt[(k + 2 * (i - 1) + 1) % StreamLen]
    IN  1 + (raw * 19) \div RawMax

\* spans and the generator state kAfter are what the loop of Random
\* detection gives on n pixels from the generator state k
RandomAsDescribed(n, k, spans, kAfter) ==
    LET top == IF n \div 4 > 11 THEN n \div 4 ELSE 11
    IN  /\ Len(spans) >= 1
        /\ Len(spans) <= n
        /\ spans[1].start = 0
        /\ \A i \in 1..Len(spans) :
              /\ 10 <= RandomLength(n, k, i) /\ RandomLength(n, k, i) <= top
              /\ 1 <= RandomGap(k, i) /\ RandomGap(k, i) <= 20
              /\ spans[i].start < n
              /\ spans[i].end
                    = (IF spans[i].start + RandomLength(n, k, i) < n
                       THEN spans[i].start + RandomLength(n, k, i) ELSE n)
              /\ i < Len(spans) =>
                    /\ spans[i + 1].start = spans[i].end + RandomGap(k, i)
                    /\ spans[i + 1].start > spans[i].end
                    /\ spans[i + 1].start > spans[i].start
        /\ spans[Len(spans)].end + RandomGap(k, Len(spans)) >= n
        /\ kAfter = k + 2 * Len(spans)

\* C21: on a line of n >= 1 pixels Random detection starts at 0; its i-th
\* span runs from the cursor to the cursor plus the i-th drawn length, cut
\* off at n; the next cursor is that end plus the i-th drawn gap; lengths are
\* in [10, max(11, n/4)] and gaps in [1, 20]; two draws are taken for every
\* span; consecutive spans leave a position between them; the cursor grows
\* strictly and the loop ends when it is n or more.
C21_RandomDetection ==
    /\ (/\ lineLog.rowIndex >= 0
        /\ currentParams.intervalMode = kIntervalModeRandom
        /\ Len(lineLog.before) >= 1)
       => /\ RandomAsDescribed(Len(lineLog.before), lineLog.rngBefore,
                               lineLog.detected, RngAtSpan(1))
          /\ lineLog.rng = lineLog.rngBefore + 2 * Len(lineLog.detected)
    /\ (pc = "SortLines" /\ currentParams.intervalMode = kIntervalModeRandom)
       => \A n \in RandomLineLengths :
              RandomAsDescribed(n, rng, DetectSpansRandom(n, rng).spans,
                                DetectSpansRandom(n, rng).rng)

\* a Random line on which three spans were emitted with a gap after each of
\* the first two, in a state from which a line of 48 pixels gets a first
\* span longer than 11
C21_ThreeRandomSpans ==
    /\ lineLog.rowIndex >= 0
    /\ currentParams.intervalMode = kIntervalModeRandom
    /\ Len(lineLog.detected) = 3
    /\ lineLog.detected[3].start > lineLog.detected[2].end
    /\ lineLog.rng = lineLog.rngBefore + 6
    /\ DetectSpansRandom(48, rng).spans[1].end > 11

\* the spans tile a line of n pixels: the first starts at 0, each starts
\* where the one before it ends, the last ends at n, none is empty
Tiles(spans, n) ==
    /\ Len(spans) >= 1
    /\ Len(spans) <= n
    /\ spans[1].start = 0
    /\ spans[Len(spans)].end = n
    /\ \A i \in 1..Len(spans) : spans[i].start < spans[i].end
    /\ \A i \in 1..(Len(spans) - 1) : spans[i + 1].start = spans[i].end

\* every span but the last has at least two positions
AllButLastTwoLong(spans) ==
    \A i \in 1..(Len(spans) - 1) : spans[i].end - spans[i].start >= 2

\* line lengths and line indices at which Waves detection is looked at on its
\* own; at line index 40 the sine is near -1 and the lengths are raised to 2
WaveLineLengths == {1, 2, 12, 32, 60}

WaveLineIndices == {0, 1, 40}

\* C22: before the post-filter the spans of Edges, Waves and None mode tile
\* the line, for every line of n >= 1 pixels (one pixel in Edges mode: the
\* one span [0,1)); in Waves mode every span but the last has length >= 2
\* and the detection ends (at most n spans).
C22_SpansTileTheLine ==
    /\ (/\ lineLog.rowIndex >= 0
        /\ Len(lineLog.before) >= 1
        /\ currentParams.intervalMode \in {kIntervalModeEdges,
                                           kIntervalModeWaves,
                                           kIntervalModeNone})
       => /\ Tiles(lineLog.detected, Len(lineLog.before))
          /\ currentParams.intervalMode = kIntervalModeNone
                => Len(lineLog.detected) = 1
          /\ (/\ currentParams.intervalMode = kIntervalModeEdges
              /\ Len(lineLog.before) = 1)
                => lineLog.detected = <<[start |-> 0, end |-> 1]>>
          /\ currentParams.intervalMode = kIntervalModeWaves
                => AllButLastTwoLong(lineLog.detected)
    /\ (pc = "SortLines" /\ currentParams.intervalMode = kIntervalModeWaves)
       => \A n \in WaveLineLengths, row \in WaveLineIndices :
             /\ Tiles(DetectSpansWaves(n, row), n)
             /\ AllButLastTwoLong(DetectSpansWaves(n, row))
    /\ (pc = "SortLines" /\ currentParams.intervalMode = kIntervalModeNone)
       => \A n \in WaveLineLengths : Tiles(DetectSpansNone(n), n)

\* an Edges line that was split at an edge, and a wave line whose computed
\* length fell below 2
C22_EdgeSplitsLine ==
    /\ lineLog.rowIndex >= 0
    /\ currentParams.intervalMode = kIntervalModeEdges
    /\ Len(lineLog.detected) >= 2
    /\ WaveLength(10, 40) < 2
    /\ Len(DetectSpansWaves(12, 40)) > 2

\* how often a stage occurs in the trace of the current pass
StageCount(stage) == Cardinality({i \in 1..Len(trace) : trace[i] = stage})

\* the sorted rotated buffer brought back to the size of the image
UnrotatedSorted ==
    UnrotateImage(rotImage, fullW, fullH, sortW, sortH, currentParams.angle)

\* the mask values of the positions of line number k of the image
MaskOfLine(k) ==
    IF currentParams.direction = kSortDirectionHorizontal
    THEN [j \in 1..fullW |-> fullSelect[k * fullW + j]]
    ELSE [j \in 1..fullH |-> fullSelect[(j - 1) * fullW + k + 1]]

\* C23: with rotation active every row of the rotated buffer is sorted
\* without a mask, and the mask is applied once, after Unrotate, to every
\* pixel of the buffer of the original size: the saved original at mask 0,
\* the unrotated sorted pixel at mask 255, and per channel
\* orig + (sorted - orig) * m / 255 at a mask m in between. Without rotation
\* SortLine gets the mask values of its line and no global blend stage runs.
C23_MaskAfterUnrotate ==
    passes > 0 =>
       /\ (RotationActive /\ LineOfThisPass) =>
             /\ lineLog.sel = NoSelection
             /\ Len(lineLog.before) = sortW
             /\ lineLog.before = RowOf(rotImage, sortW, lineLog.rowIndex)
                   \/ lineLog.line = RowOf(rotImage, sortW, lineLog.rowIndex)
       /\ (RotationActive /\ Len(trace) > 0) =>
             /\ StageCount("BlendSelection") <= 1
             /\ \A i \in 1..Len(trace) :
                   trace[i] = "BlendSelection" =>
                       i > 1 /\ trace[i - 1] = "Unrotate"
             /\ (select # NoSelection /\ pc \in {"Scatter", "LoopTail"}) =>
                   /\ StageCount("BlendSelection") = 1
                   /\ \A j \in 1..(fullW * fullH) :
                         LET m == fullSelect[j]
                             orig == gathered[j]
                             srt == UnrotatedSorted[j]
                         IN  /\ m = 0 => fullImage[j] = orig
                             /\ m = 255 => fullImage[j] = srt
                             /\ (0 < m /\ m < 255) =>
                                   \A c \in 1..3 :
                                       fullImage[j][c]
                                          = orig[c]
                                            + TruncDiv((srt[c] - orig[c]) * m,
                                                       255)
       /\ (~RotationActive /\ Len(trace) > 0) =>
             /\ StageCount("BlendSelection") = 0
             /\ (LineOfThisPass /\ fullSelect # NoSelection) =>
                   lineLog.sel = MaskOfLine(lineLog.rowIndex)

\* a finished rotated pass under a mask in which the global blend restored an
\* original pixel at mask 0 and mixed a pixel at a mask between 0 and 255
C23_RotatedPassBlended ==
    /\ pc = "LoopTail"
    /\ RotationActive
    /\ select # NoSelection
    /\ StageCount("BlendSelection") = 1
    /\ \E j \in 1..(fullW * fullH) :
          fullSelect[j] = 0 /\ UnrotatedSorted[j] # gathered[j]
    /\ \E j \in 1..(fullW * fullH) :
          /\ 0 < fullSelect[j] /\ fullSelect[j] < 255
          /\ fullImage[j] # UnrotatedSorted[j]
          /\ fullImage[j] # gathered[j]

\* the stages of a pass, between the Start call and the loop tail
PassStages ==
    {"Gather", "Rotate", "SortLines", "Unrotate", "BlendSelection", "Scatter"}

\* what holds of a step of FilterRun if a pass, once started, runs to its end
\* without a call to Process
PassStep ==
    /\ hostState' # "Continue"
    /\ pc \in PassStages =>
          /\ hostState = "Start"
          /\ hostState' = "Start"
          /\ restart' = restart
          /\ result' = result
          /\ props' = props
          /\ passes' = passes
          /\ currentParams = ClampParams(props)
          /\ currentParams' = currentParams
          /\ pc' \in PassStages \cup {"LoopTail"}
    /\ (pc = "LoopTail" /\ passes > 0) =>
          /\ trace = ExpectedStages(LineCount)
          /\ StageCount("SortLines") = LineCount
          /\ y = LineCount
          /\ dest = fullImage
          /\ blockIndex = BlockRectCount
          /\ hostState' = "End"

\* C24: after a Start call that the host did not answer with Exit, the pass
\* (gather, every line, scatter to every block) is complete before Process
\* is called again: Process is never called with the Continue state, no step
\* between the Start call and the loop tail calls the host or looks at an
\* answer, and all lines use the Params read at the start of the pass.
C24_PassRunsToCompletion == [][PassStep]_vars

\* a second pass, started by a Restart answer with changed properties, has
\* sorted all its lines and scattered them, and Process has not been called
\* since its Start call
C24_SecondPassComplete ==
    /\ passes = 2
    /\ pc = "LoopTail"
    /\ hostState = "Start"
    /\ StageCount("SortLines") = LineCount
    /\ LineCount = 2
    /\ dest = fullImage
    /\ firstPass.done
    /\ currentParams # firstPass.params

\* the positions of [s, e) that take part under the selection of the last
\* sorted line: all of them without a selection, those of value 255 with one
Taking(s, e) ==
    {i \in s..(e - 1) :
        lineLog.sel = NoSelection \/ lineLog.sel[i + 1] = 255}

\* lineA and lineB hold the same pixels the same number of times at the
\* positions pos
SameMultisetAt(lineA, lineB, pos) ==
    \A i \in pos :
        Cardinality({j \in pos : PixelAt(lineA, j) = PixelAt(lineB, i)})
           = Cardinality({j \in pos : PixelAt(lineB, j) = PixelAt(lineB, i)})

\* the selection of the last sorted line has no value but 0 and 255
BinaryOrNoMask ==
    \/ lineLog.sel = NoSelection
    \/ \A i \in 1..Len(lineLog.sel) : lineLog.sel[i] \in {0, 255}

\* C25: in a non-rotated pass without a mask SortLine only permutes pixels
\* within spans: each span holds the same multiset of pixels before and
\* after, a position outside every span keeps its pixel, and the line as a
\* whole holds the same multiset, in every interval mode and for every
\* reverse, jitter and falloff; under a mask of the values 0 and 255 the same
\* holds of the positions of mask 255 of each span.
C25_SpansOnlyPermuted ==
    (lineLog.rowIndex >= 0 /\ ~useAngle /\ BinaryOrNoMask)
    => LET n == Len(lineLog.before)
           taking == UNION {Taking(lineLog.spans[r].start,
                                   lineLog.spans[r].end) :
                               r \in 1..Len(lineLog.spans)}
       IN  /\ Len(lineLog.line) = n
           /\ \A r \in 1..Len(lineLog.spans) :
                 SameMultisetAt(lineLog.line, lineLog.before,
                                Taking(lineLog.spans[r].start,
                                       lineLog.spans[r].end))
           /\ \A i \in 0..(n - 1) :
                 i \notin taking
                    => PixelAt(lineLog.line, i) = PixelAt(lineLog.before, i)
           /\ SameMultisetAt(lineLog.line, lineLog.before, 0..(n - 1))

\* a line without a mask, with jitter and falloff, of which a span was
\* reordered while some position lies outside every span
C25_SpanReordered ==
    /\ lineLog.rowIndex >= 0
    /\ lineLog.sel = NoSelection
    /\ currentParams.jitter > 0
    /\ currentParams.falloff > 0
    /\ currentParams.reverse
    /\ lineLog.line # lineLog.before
    /\ \E i \in 0..(Len(lineLog.before) - 1) :
          \A r \in 1..Len(lineLog.spans) :
              i < lineLog.spans[r].start \/ i >= lineLog.spans[r].end

\* a line under a mask of the values 0 and 255 of which a span with a
\* position of mask 0 inside it was reordered
C25_MaskedSpanReordered ==
    /\ lineLog.rowIndex >= 0
    /\ lineLog.sel # NoSelection
    /\ BinaryOrNoMask
    /\ \E r \in SortedRecords :
          /\ \E i \in lineLog.log[r].start..(lineLog.log[r].end - 1) :
                lineLog.sel[i + 1] = 0
          /\ ~SameOver(lineLog.line, lineLog.before, lineLog.log[r].start,
                       lineLog.log[r].end)

\* the integer ((s - o) * m / 255) + o of the blend, before it is stored
BlendInt(srt, orig, m) == orig + TruncDiv((srt - orig) * m, 255)

\* v lies between a and b, whichever of them is the smaller
Between(v, a, b) ==
    /\ (IF a < b THEN a ELSE b) <= v
    /\ v <= (IF a < b THEN b ELSE a)

\* the pairs of channel values that a swap of the two source pixels blends
SourceChannelPairs ==
    UNION {{<<source[1][c], source[2][c]>>, <<source[2][c], source[1][c]>>} :
              c \in 1..3}

\* C26: at both places that blend, the per-line one in SortLine and the
\* per-pixel one after Unrotate, the integer ((s - o) * m / 255) + o lies
\* between min(o, s) and max(o, s) for a mask m in 1..254, so the channel
\* that is stored is that integer and not a value wrapped into 0..255.
C26_BlendStaysInRange ==
    /\ (LineOfThisPass /\ ~useAngle /\ lineLog.sel # NoSelection)
       => \A r \in SortedRecords :
             \A i \in 1..Len(lineLog.log[r].included) :
                 LET idx == lineLog.log[r].start + lineLog.log[r].included[i]
                     m == SelAt(lineLog.sel, idx)
                     orig == PixelAt(lineLog.before, idx)
                     srt == lineLog.log[r].work[i]
                 IN  (0 < m /\ m < 255) =>
                        \A c \in 1..3 :
                            /\ Between(BlendInt(srt[c], orig[c], m),
                                       orig[c], srt[c])
                            /\ PixelAt(lineLog.line, idx)[c]
                                  = BlendInt(srt[c], orig[c], m)
    /\ (/\ passes > 0
        /\ RotationActive
        /\ select # NoSelection
        /\ StageCount("BlendSelection") = 1)
       => \A j \in 1..(fullW * fullH) :
             LET m == fullSelect[j]
             IN  (0 < m /\ m < 255) =>
                    \A c \in 1..3 :
                        /\ Between(BlendInt(UnrotatedSorted[j][c],
                                            gathered[j][c], m),
                                   gathered[j][c], UnrotatedSorted[j][c])
                        /\ fullImage[j][c]
                              = BlendInt(UnrotatedSorted[j][c],
                                         gathered[j][c], m)
    /\ (pc = "LoopHead" /\ passes = 0)
       => \A pair \in SourceChannelPairs, m \in 1..254 :
             /\ Between(BlendInt(pair[1], pair[2], m), pair[2], pair[1])
             /\ BlendChannel(pair[1], pair[2], m)
                   = BlendInt(pair[1], pair[2], m)

\* a rotated pass blended, after Unrotate, a channel whose sorted value is
\* below the original with a quotient that is not exact, and stored a value
\* strictly between the two
C26_BothSitesBlended ==
    /\ passes > 0
    /\ RotationActive
    /\ pc = "LoopTail"
    /\ StageCount("BlendSelection") = 1
    /\ \E j \in 1..(fullW * fullH), c \in 1..3 :
          /\ UnrotatedSorted[j][c] < gathered[j][c]
          /\ ((gathered[j][c] - UnrotatedSorted[j][c]) * fullSelect[j]) % 255
                # 0
          /\ fullImage[j][c] # gathered[j][c]
          /\ fullImage[j][c] # UnrotatedSorted[j][c]

\* a pass without rotation blended, within SortLine, a channel whose sorted
\* value is above the original, the original being 0 and the sorted one 255
C26_LineSiteBlended ==
    /\ LineOfThisPass
    /\ ~useAngle
    /\ \E r \in SortedRecords :
          \E i \in 1..Len(lineLog.log[r].included) :
              LET idx == lineLog.log[r].start + lineLog.log[r].included[i]
              IN  /\ PixelAt(lineLog.before, idx)[3] = 0
                  /\ lineLog.log[r].work[i][3] = 255
                  /\ PixelAt(lineLog.line, idx)[3] \in 1..254

\* the step leaves the loop of FilterRun: only from a call of Process, and
\* FilterRun returns success
LeavesOnExit ==
    (pc # "Returned" /\ pc' = "Returned")
    => /\ pc \in {"LoopHead", "LoopTail"}
       /\ result' = "Success"
       /\ dest' = dest
       /\ passes' = passes

\* the step begins a pass: the properties are read and clamped, the block
\* index is reset and the generator is seeded again
BeginsPass ==
    /\ pc' = "Gather"
    /\ passes' = passes + 1
    /\ currentParams' = ClampParams(props)
    /\ blockIndex' = 0
    /\ rng' = RngSeed
    /\ hostState' = "Start"

\* a pass begins at a Start call and nowhere else
PassOnlyAtStart ==
    passes' # passes => (pc = "LoopHead" /\ restart /\ BeginsPass)

\* the answers at the loop tail: Restart sets the restart flag and goes to the
\* loop head, any answer but Restart and Exit comes back to the loop tail,
\* where Process is called again with the End state; no pixel is processed
TailAnswers ==
    pc = "LoopTail" =>
       /\ hostState' = "End"
       /\ dest' = dest \/ (pc' = "LoopHead" /\ dest' = source)
       /\ fullImage' = fullImage
       /\ passes' = passes
       /\ pc' \in {"LoopTail", "LoopHead", "Returned"}
       /\ pc' = "LoopHead" <=> (restart' /\ ~restart)
       /\ pc' = "LoopTail" => UNCHANGED <<restart, dest, trace>>

\* C27 as stated: the loop is left only on an Exit answer, and with success,
\* also on an Exit to the first Start call; every Restart answer is followed
\* by one new full pass (properties read and clamped, block index reset,
\* generator seeded); any other answer is followed by another call of Process
\* with the End state and no pixel is processed.
C27_RestartAlwaysNewPass ==
    [][/\ LeavesOnExit
       /\ PassOnlyAtStart
       /\ TailAnswers
       /\ (pc = "LoopHead" /\ restart /\ passes > 0) => BeginsPass]_vars

\* C27, amended: the loop is left only on an Exit answer, and with success,
\* also on an Exit to the first Start call; a Restart answer at the loop tail
\* is followed by a Start call, and a Start call is followed by one new full
\* pass (properties read and clamped, block index reset, generator seeded)
\* unless its answer is Exit, which leaves the loop without a pass; any
\* answer at the loop tail but Restart and Exit is followed by another call
\* of Process with the End state and no pixel is processed.
C27_RestartThenStartCall ==
    [][/\ LeavesOnExit
       /\ PassOnlyAtStart
       /\ TailAnswers
       /\ (pc = "LoopHead" /\ restart)
             => /\ hostState' = "Start"
                /\ ~restart'
                /\ BeginsPass \/ pc' = "Returned"]_vars

\* FilterRun returned after two passes, the second one begun by a Restart
\* answer under properties that need clamping
C27_ReturnedAfterRestart ==
    /\ pc = "Returned"
    /\ result = "Success"
    /\ passes = 2
    /\ hostState = "End"
    /\ props # ClampParams(props)
    /\ currentParams = ClampParams(props)

\* FilterRun returned on an Exit answer to the first Start call
C27_ExitAtFirstStart ==
    /\ pc = "Returned"
    /\ result = "Success"
    /\ passes = 0
    /\ dest = source

\* FilterRun returned on an Exit answer to the Start call after a Restart
C27_ExitAfterRestart ==
    /\ pc = "Returned"
    /\ result = "Success"
    /\ passes = 1
    /\ hostState = "Start"

====
